---- MODULE Spec2Model ----
(***************************************************************************)
(* Call-termination decision engine of the Voicebot relay.                 *)
(*                                                                         *)
(* One telephony (Twilio) media-stream session of src/unnamed/part_002     *)
(* (lines 96-1671): the closure variables of the connection handler are    *)
(* the state, every event handler and every timer callback is one action.  *)
(*                                                                         *)
(* Time.  Date.now() is read from a clock that never runs backwards and a  *)
(* setTimeout callback runs no sooner than its delay after it was armed.   *)
(* The model keeps, for every pending hang-up callback, whether            *)
(* lastAudioTime was assigned after the callback was armed (audioSince).   *)
(* When it was not, Date.now() - lastAudioTime is at least the delay of    *)
(* the callback; when it was, the difference can be anything.  The two     *)
(* ceilings that are measured in minutes are kept as the flags             *)
(* inactivityExceeded and durationExceeded: they can only turn true while  *)
(* time passes (a silence-timer callback becomes due) and turn false when  *)
(* the timestamp they are measured from is assigned.  Pending callbacks of  *)
(* different timers run in any order: the model keeps no deadlines, so it   *)
(* allows every order the delays allow and some they do not.                *)
(***************************************************************************)
EXTENDS Integers, Sequences, FiniteSets, TLC

\* ---------------------------------------------------------------- bounds
MaxConns == 2         \* AI connections created in one session
MaxBuffered == 1      \* frames waiting in audioBuffer
MaxResets == 2        \* cap of silenceTimerResetCount
MaxEndTimeouts == 2   \* pending 500 ms close callbacks of safeEndCall
MaxIdleResets == 21   \* cap of silenceTimerResetCount in the idle session
MaxNested == 1        \* pending follow-up timeouts in the campaign session
MaxWaiting == 3       \* media frames of the stream in the session without an agent
MaxFrames == 52       \* media frames of the stream in the buffering session

\* ------------------------------------------------------ program constants
MAX_SILENCE_RESETS == 20
TAIL_CHARS == 150
BUFFER_LIMIT == 50
PHRASE_DELAY == 25000
MAIN_DELAY == 20000
TOOL_DELAY == 15000
CONV_END_DELAY == 10000
RESET_DELAY == 10000
WAIT_LONG == 8000
WAIT_SHORT == 5000
RECENT_LONG == 5000
RECENT_SHORT == 3000
\* src/campaign-outbound.js
CO_PHRASE_DELAY == 10000
CO_MAIN_DELAY == 20000
CO_TOOL_DELAY == 15000
CO_CONV_END_DELAY == 10000
CO_WAIT_LONG == 8000
CO_WAIT_SHORT == 5000
CO_RECENT_LONG == 5000
CO_RECENT_SHORT == 3000

Max(a, b) == IF a > b THEN a ELSE b

\* ------------------------------------------------------------ agent text
\* A text is its length and the index of the occurrence of an allow-listed
\* closing phrase in it (-1: no phrase occurs).
NoText == [len |-> 0, idx |-> -1]
Texts ==
  { NoText,
    [len |-> 40, idx |-> -1],      \* "... dus activeer ik nu uw account."
    [len |-> 400, idx |-> 12],     \* phrase quoted early in a long text
    [len |-> 40, idx |-> 18] }     \* "Bedankt, nog een fijne dag."

\* closingPhrases.some(phrase => text.includes(phrase))
ContainsPhrase(text) == text.idx >= 0

\* textEnd = lowerText.substring(Math.max(0, length - 150)); textEnd.includes(phrase)
PhraseAtEnd(text) ==
  /\ text.idx >= 0
  /\ text.idx >= Max(0, text.len - TAIL_CHARS)

\* a || b on strings: the empty string is falsy
OrText(a, b) == IF a.len > 0 THEN a ELSE b

\* -------------------------------------------------------- AI messages
MsgTypes == {"audio", "agent_response", "user_transcript", "conversation_end", "other"}
ToolPlaces == {"none", "root", "transcript", "are"}

\* type: message.type; term: message.termination_reason is present;
\* tc: where an end_call tool call sits (root tool_calls, a transcript turn,
\* agent_response_event.tool_calls); areText: agent_response_event.agent_response;
\* trText: transcript[0].agent_response.
\* Only messages that differ in what the handler reads: transcript[0].agent_response
\* is read only when agent_response_event.agent_response is empty and only with
\* includes(); the texts of a message that is not an agent_response are read
\* only next to a tool call and only with includes().
Messages ==
  { m \in [type : MsgTypes, term : BOOLEAN, tc : ToolPlaces,
           areText : Texts, trText : Texts] :
      /\ m.trText.len <= TAIL_CHARS
      /\ m.areText.len > 0 => m.trText = NoText
      /\ m.type # "agent_response" => m.areText.len <= TAIL_CHARS
      /\ (m.type # "agent_response" /\ m.tc = "none") =>
            (m.areText = NoText /\ m.trText = NoText)
      /\ m.term => m.type \in {"other", "agent_response"} }

\* ----------------------------------------------------- hang-up callbacks
Kinds == {"phrase", "main", "resp", "array", "convEnd", "reset"}

\* delay of the setTimeout that schedules stage n of a hang-up chain
Delay(kind, stage) ==
  IF stage = 1
    THEN CASE kind = "phrase" -> PHRASE_DELAY
           [] kind = "main" -> MAIN_DELAY
           [] kind \in {"resp", "array"} -> TOOL_DELAY
           [] kind = "convEnd" -> CONV_END_DELAY
           [] OTHER -> RESET_DELAY
    ELSE IF stage = 2 /\ kind \in {"phrase", "main", "reset"}
           THEN WAIT_LONG
           ELSE WAIT_SHORT

\* the window the callback of stage n compares Date.now() - lastAudioTime
\* with (0: the callback hangs up without looking)
Window(kind, stage) ==
  IF stage = 1
    THEN IF kind \in {"resp", "convEnd"} THEN RECENT_SHORT ELSE RECENT_LONG
    ELSE IF stage = 2 /\ kind \in {"phrase", "main"}
           THEN RECENT_SHORT
           ELSE 0

NullTimer == [state |-> "null", kind |-> "none", audioSince |-> FALSE]
SpentTimer == [state |-> "spent", kind |-> "none", audioSince |-> FALSE]
ArmedTimer(kind) == [state |-> "armed", kind |-> kind, audioSince |-> FALSE]

\* the outcomes of Date.now() - lastAudioTime < window in a callback that was
\* armed delay ms ago
RecentOutcomes(delay, window, audioSince) ==
  IF window = 0 THEN {FALSE}
  ELSE IF audioSince \/ delay < window THEN BOOLEAN
  ELSE {FALSE}

VARIABLES
  ws,                        \* readyState of the telephony socket
  streamSid, callSid,        \* 0: null
  elevenLabsWs,              \* 0: null, else the index of the connection
  conns,                     \* AI connections created so far
  pendingStart,              \* start handlers suspended in await getSignedUrl
  pendingFallback,           \* the fallback setup is suspended in its await
  silenceTimer,              \* "null", "armed", "due" (its 25 s are over), "spent"
  closingPhraseTimer,        \* the timeout closingPhraseTimer refers to
  nestedTimeouts,            \* follow-up timeouts of fired hang-up callbacks
  endTimeouts,               \* pending 500 ms callbacks of safeEndCall
  closingPhraseDetected,
  lastAgentResponse,
  audioBuffer,
  elevenLabsReady,
  elevenLabsSetupAttempted,
  silenceTimerResetCount,
  callEnding,
  inactivityExceeded,        \* Date.now() - lastActivity > 5 minutes
  durationExceeded,          \* Date.now() - callStartTime > 10 minutes
  emitted,                   \* what the last handler sent, called and logged
  chunks,                    \* the user_audio_chunk payloads it sent, in order
  received,                  \* number of the last media frame of the stream
  peer,                      \* the closure variables of a second connection
  probe                      \* the last input given to a function and its result

vars == << ws, streamSid, callSid, elevenLabsWs, conns, pendingStart,
           pendingFallback, silenceTimer, closingPhraseTimer, nestedTimeouts,
           endTimeouts, closingPhraseDetected, lastAgentResponse, audioBuffer,
           elevenLabsReady, elevenLabsSetupAttempted, silenceTimerResetCount,
           callEnding, inactivityExceeded, durationExceeded, emitted, chunks,
           received, peer, probe >>

ConnIds == 1 .. MaxConns
Payloads == {"p1"}
NoConn == [state |-> "NONE", fallback |-> FALSE]

\* the closure variables as one record, so that a handler is a composition
\* of the functions it calls
Cur ==
  [ ws |-> ws, streamSid |-> streamSid, callSid |-> callSid,
    elevenLabsWs |-> elevenLabsWs, conns |-> conns,
    pendingStart |-> pendingStart, pendingFallback |-> pendingFallback,
    silenceTimer |-> silenceTimer, closingPhraseTimer |-> closingPhraseTimer,
    nestedTimeouts |-> nestedTimeouts, endTimeouts |-> endTimeouts,
    closingPhraseDetected |-> closingPhraseDetected,
    lastAgentResponse |-> lastAgentResponse, audioBuffer |-> audioBuffer,
    elevenLabsReady |-> elevenLabsReady,
    elevenLabsSetupAttempted |-> elevenLabsSetupAttempted,
    silenceTimerResetCount |-> silenceTimerResetCount,
    callEnding |-> callEnding, inactivityExceeded |-> inactivityExceeded,
    durationExceeded |-> durationExceeded, emitted |-> {}, chunks |-> << >>,
    received |-> received ]

CommitSession(s) ==
  /\ ws' = s.ws
  /\ streamSid' = s.streamSid
  /\ callSid' = s.callSid
  /\ elevenLabsWs' = s.elevenLabsWs
  /\ conns' = s.conns
  /\ pendingStart' = s.pendingStart
  /\ pendingFallback' = s.pendingFallback
  /\ silenceTimer' = s.silenceTimer
  /\ closingPhraseTimer' = s.closingPhraseTimer
  /\ nestedTimeouts' = s.nestedTimeouts
  /\ endTimeouts' = s.endTimeouts
  /\ closingPhraseDetected' = s.closingPhraseDetected
  /\ lastAgentResponse' = s.lastAgentResponse
  /\ audioBuffer' = s.audioBuffer
  /\ elevenLabsReady' = s.elevenLabsReady
  /\ elevenLabsSetupAttempted' = s.elevenLabsSetupAttempted
  /\ silenceTimerResetCount' = s.silenceTimerResetCount
  /\ callEnding' = s.callEnding
  /\ inactivityExceeded' = s.inactivityExceeded
  /\ durationExceeded' = s.durationExceeded
  /\ emitted' = s.emitted
  /\ chunks' = s.chunks
  /\ received' = s.received

\* a handler of this connection leaves the variables of any other alone
Commit(s) == CommitSession(s) /\ UNCHANGED << peer, probe >>

\* no second connection; no function applied yet
NoSession == << >>
NoProbe == [fn |-> "none"]

InitSession ==
  /\ ws = "OPEN"
  /\ streamSid = 0
  /\ callSid = 0
  /\ elevenLabsWs = 0
  /\ conns = [c \in ConnIds |-> NoConn]
  /\ pendingStart = 0
  /\ pendingFallback = FALSE
  /\ silenceTimer = "null"
  /\ closingPhraseTimer = NullTimer
  /\ nestedTimeouts = {}
  /\ endTimeouts = 0
  /\ closingPhraseDetected = FALSE
  /\ lastAgentResponse = NoText
  /\ audioBuffer = << >>
  /\ elevenLabsReady = FALSE
  /\ elevenLabsSetupAttempted = FALSE
  /\ silenceTimerResetCount = 0
  /\ callEnding = FALSE
  /\ inactivityExceeded = FALSE
  /\ durationExceeded = FALSE
  /\ emitted = {}
  /\ chunks = << >>
  /\ received = 0

Init == InitSession /\ peer = NoSession /\ probe = NoProbe

\* ------------------------------------------------------------- helpers
Emit(s, x) == [s EXCEPT !.emitted = @ \cup {x}]

\* elevenLabsWs.send(JSON.stringify({user_audio_chunk: ...})) for each frame
SendChunks(s, frames) ==
  IF frames = << >> THEN s
  ELSE [Emit(s, "chunk") EXCEPT !.chunks = @ \o frames]

\* elevenLabsWs?.readyState
ElState(s) == IF s.elevenLabsWs = 0 THEN "NONE" ELSE s.conns[s.elevenLabsWs].state

\* ws.send(frame): a frame leaves only through an open socket
WsSend(s, frame) == IF s.ws = "OPEN" THEN Emit(s, frame) ELSE s

\* ws.close()
WsClose(s) ==
  Emit([s EXCEPT !.ws = IF @ = "OPEN" THEN "CLOSING" ELSE @], "ws.close")

\* if (elevenLabsWs?.readyState === WebSocket.OPEN) elevenLabsWs.close()
ElCloseIfOpen(s) ==
  IF ElState(s) = "OPEN"
    THEN Emit([s EXCEPT !.conns[s.elevenLabsWs].state = "CLOSING"], "el.close")
    ELSE s

\* if (silenceTimer) clearTimeout(silenceTimer)
ClearSilenceTimer(s) ==
  [s EXCEPT !.silenceTimer = IF @ \in {"armed", "due"} THEN "spent" ELSE @]

\* if (closingPhraseTimer) clearTimeout(closingPhraseTimer)
ClearClosingTimer(s) ==
  [s EXCEPT !.closingPhraseTimer = IF @.state = "armed" THEN SpentTimer ELSE @]

resetSilenceTimer(s) == [ClearSilenceTimer(s) EXCEPT !.silenceTimer = "armed"]

\* lastActivity = Date.now()
TouchActivity(s) == [s EXCEPT !.inactivityExceeded = FALSE]

updateActivity(s) == [TouchActivity(s) EXCEPT !.silenceTimerResetCount = 0]

\* lastAudioTime = Date.now(): every pending callback was armed before it
TouchAudio(s) ==
  [s EXCEPT
     !.closingPhraseTimer =
        IF @.state = "armed" THEN [@ EXCEPT !.audioSince = TRUE] ELSE @,
     !.nestedTimeouts = { [t EXCEPT !.audioSince = TRUE] : t \in @ }]

\* a variant of ArmHangup without the clearTimeout: the timeout that was
\* armed stays pending next to the new one
ArmHangupKeepingOld(s, kind) ==
  [s EXCEPT
     !.nestedTimeouts =
        IF s.closingPhraseTimer.state = "armed"
          THEN @ \cup {[kind |-> s.closingPhraseTimer.kind, stage |-> 2,
                        audioSince |-> s.closingPhraseTimer.audioSince]}
          ELSE @,
     !.closingPhraseTimer = ArmedTimer(kind)]

\* clearTimeout(closingPhraseTimer); closingPhraseTimer = setTimeout(...)
ArmHangup(s, kind) ==
  [ClearClosingTimer(s) EXCEPT !.closingPhraseTimer = ArmedTimer(kind)]

\* a variant of forceEndCall that leaves the telephony socket open
forceEndCallKeepingSocket(s) ==
  LET s1 == Emit(s, "log:forced")
      s2 == IF s1.streamSid # 0 THEN WsSend(s1, "stop") ELSE s1
  IN ElCloseIfOpen(s2)

forceEndCall(s) ==
  LET s1 == Emit(s, "log:forced")
      s2 == IF s1.streamSid # 0 THEN WsSend(s1, "stop") ELSE s1
      s3 == ElCloseIfOpen(s2)
  IN WsClose(s3)

safeEndCall(s) ==
  IF ~s.closingPhraseDetected
    THEN Emit(s, "log:blocked")
    ELSE LET s1 == [s EXCEPT !.callEnding = TRUE, !.audioBuffer = << >>]
             s2 == Emit(s1, "log:ending")
             s3 == IF s2.streamSid # 0 THEN WsSend(s2, "stop") ELSE s2
         IN [s3 EXCEPT !.endTimeouts = @ + 1]

\* a variant of checkForClosingPhrase in which the flag follows the last
\* utterance
checkForClosingPhraseTracking(s, text) ==
  IF PhraseAtEnd(text)
    THEN Emit(ArmHangup([s EXCEPT !.closingPhraseDetected = TRUE], "phrase"),
              "log:phrase")
    ELSE [s EXCEPT !.closingPhraseDetected = FALSE]

\* a variant of checkForClosingPhrase that hangs up at once
checkForClosingPhraseImmediate(s, text) ==
  IF PhraseAtEnd(text) /\ ~s.closingPhraseDetected
    THEN safeEndCall(Emit([s EXCEPT !.closingPhraseDetected = TRUE], "log:phrase"))
    ELSE s

checkForClosingPhrase(s, text) ==
  IF PhraseAtEnd(text) /\ ~s.closingPhraseDetected
    THEN Emit(ArmHangup([s EXCEPT !.closingPhraseDetected = TRUE], "phrase"),
              "log:phrase")
    ELSE s

\* ------------------------------------------------------ timer callbacks
\* the outcomes of a comparison with a ceiling measured in minutes: once the
\* ceiling is exceeded it stays exceeded until its timestamp is assigned
CeilingOutcomes(exceeded) == IF exceeded THEN {TRUE} ELSE BOOLEAN

\* a variant of the callback of resetSilenceTimer for which inactivity alone
\* is grounds to hang up
SilenceCallbackImpatient(s, ie, de) ==
  LET s0 == [s EXCEPT !.silenceTimer = "spent",
                      !.inactivityExceeded = ie, !.durationExceeded = de]
  IN IF ~s0.closingPhraseDetected
       THEN forceEndCall([s0 EXCEPT !.silenceTimerResetCount = @ + 1])
       ELSE safeEndCall([s0 EXCEPT !.silenceTimerResetCount = 0])

\* callback of resetSilenceTimer; ie, de: the outcomes of the two
\* comparisons with the ceilings measured in minutes
SilenceCallback(s, ie, de) ==
  LET s0 == [s EXCEPT !.silenceTimer = "spent",
                      !.inactivityExceeded = ie, !.durationExceeded = de]
  IN IF ~s0.closingPhraseDetected
       THEN LET s1 == [s0 EXCEPT !.silenceTimerResetCount = @ + 1]
            IN IF ie THEN forceEndCall(s1)
               ELSE IF de THEN forceEndCall(s1)
               ELSE IF s1.silenceTimerResetCount > MAX_SILENCE_RESETS
                 THEN forceEndCall(s1)
               ELSE Emit(resetSilenceTimer(s1), "log:not_hanging_up")
       ELSE safeEndCall([s0 EXCEPT !.silenceTimerResetCount = 0])

SilenceTimerFires(cap) ==
  /\ silenceTimer = "armed"
  /\ silenceTimerResetCount < cap
  /\ \E ie \in CeilingOutcomes(inactivityExceeded),
        de \in CeilingOutcomes(durationExceeded) :
       LET s == SilenceCallback(Cur, ie, de)
       IN /\ s.endTimeouts <= MaxEndTimeouts
          /\ Commit(s)

\* the pending hang-up callbacks: the one closingPhraseTimer refers to
\* (stage 1) and the follow-up timeouts of callbacks that already ran
PendingHangups(s) ==
  (IF s.closingPhraseTimer.state = "armed"
     THEN {[kind |-> s.closingPhraseTimer.kind, stage |-> 1,
            audioSince |-> s.closingPhraseTimer.audioSince]}
     ELSE {})
  \cup s.nestedTimeouts

\* a variant of the hang-up callback that does not look at the audio time
HangupCallbackImpatient(s, t, recent) ==
  safeEndCall(IF t.stage = 1
                THEN [s EXCEPT !.closingPhraseTimer = SpentTimer]
                ELSE [s EXCEPT !.nestedTimeouts = @ \ {t}])

\* a hang-up callback: when agent audio is recent it schedules its
\* follow-up timeout, otherwise it calls safeEndCall
HangupCallback(s, t, recent) ==
  LET s0 == IF t.stage = 1
              THEN [s EXCEPT !.closingPhraseTimer = SpentTimer]
              ELSE [s EXCEPT !.nestedTimeouts = @ \ {t}]
  IN IF recent
       THEN Emit([s0 EXCEPT !.nestedTimeouts =
                    @ \cup {[kind |-> t.kind, stage |-> t.stage + 1,
                             audioSince |-> FALSE]}],
                 "log:still_speaking")
       ELSE safeEndCall(s0)

HangupTimerFires ==
  \E t \in PendingHangups(Cur) :
    \E recent \in RecentOutcomes(Delay(t.kind, t.stage),
                                 Window(t.kind, t.stage), t.audioSince) :
      LET s == HangupCallback(Cur, t, recent)
      IN /\ s.endTimeouts <= MaxEndTimeouts
         /\ Commit(s)

\* the 500 ms timeout of safeEndCall
EndCallback(s) ==
  LET s1 == ElCloseIfOpen([s EXCEPT !.endTimeouts = @ - 1])
  IN IF s1.ws = "OPEN" THEN WsClose(s1) ELSE s1

EndTimeoutFires ==
  /\ endTimeouts > 0
  /\ Commit(EndCallback(Cur))

\* ------------------------------------------- AI message handler (712-1380)
checkForEndCallTool(m) == m.tc # "none"

\* message.agent_response_event?.agent_response ||
\* message.transcript?.[0]?.agent_response || ""
CurrentAgentText(m) == OrText(m.areText, m.trText)

\* a variant of hasPrematureEndCall that looks at the text alone
hasPrematureEndCallTextOnly(s, m) ==
  /\ checkForEndCallTool(m)
  /\ ~ContainsPhrase(OrText(CurrentAgentText(m), s.lastAgentResponse))

hasPrematureEndCall(s, m) ==
  /\ checkForEndCallTool(m)
  /\ LET agentText == OrText(CurrentAgentText(m), s.lastAgentResponse)
     IN ~s.closingPhraseDetected \/ ~ContainsPhrase(agentText)

\* a variant of the pre-check that takes the directive itself for a goodbye
PreCheckEager(s, m) ==
  IF checkForEndCallTool(m) /\ ~s.closingPhraseDetected
    THEN Emit([s EXCEPT !.closingPhraseDetected = TRUE], "log:phrase_in_message")
    ELSE s

\* lines 899-925: a closing phrase in the message that carries the
\* directive sets closingPhraseDetected first
PreCheck(s, m) ==
  IF /\ checkForEndCallTool(m)
     /\ ContainsPhrase(CurrentAgentText(m))
     /\ ~s.closingPhraseDetected
    THEN Emit([s EXCEPT !.closingPhraseDetected = TRUE], "log:phrase_in_message")
    ELSE s

\* a variant of the main check whose suppression cancels the hang-up timer
MainCheckCancelling(s, m) ==
  IF ~checkForEndCallTool(m) THEN s
  ELSE IF hasPrematureEndCall(s, m)
    THEN Emit(ClearClosingTimer(s), "log:premature")
  ELSE Emit(ArmHangup(s, "main"), "log:accepted")

\* lines 927-986
MainCheck(s, m) ==
  IF ~checkForEndCallTool(m) THEN s
  ELSE IF hasPrematureEndCall(s, m) THEN Emit(s, "log:premature")
  ELSE Emit(ArmHangup(s, "main"), "log:accepted")

\* a variant of the audio branch that leaves closingPhraseTimer alone
HandleAudioWithoutReset(s, m) ==
  IF m.type = "audio" /\ s.streamSid # 0
    THEN resetSilenceTimer(TouchAudio(updateActivity(WsSend(s, "media"))))
    ELSE s

\* a variant of the audio branch that starts a fresh timer only once the
\* armed one has run
HandleAudioLateReset(s, m) ==
  IF m.type = "audio" /\ s.streamSid # 0
    THEN LET s1 == TouchAudio(updateActivity(WsSend(s, "media")))
             s2 == IF s1.closingPhraseDetected /\ s1.closingPhraseTimer.state = "spent"
                     THEN Emit(ArmHangup(s1, "reset"), "log:timer_reset")
                     ELSE s1
         IN resetSilenceTimer(s2)
    ELSE s

\* lines 988-1060
HandleAudio(s, m) ==
  IF m.type = "audio" /\ s.streamSid # 0
    THEN LET s1 == TouchAudio(updateActivity(WsSend(s, "media")))
             s2 == IF s1.closingPhraseDetected /\ s1.closingPhraseTimer.state # "null"
                     THEN Emit(ArmHangup(s1, "reset"), "log:timer_reset")
                     ELSE s1
         IN resetSilenceTimer(s2)
    ELSE s

\* lines 1062-1205; done: the handler returned
HandleAgentResponse(s, m) ==
  IF m.type # "agent_response" THEN [s |-> s, done |-> FALSE]
  ELSE LET text == m.areText
           s0 == [s EXCEPT !.lastAgentResponse = text]
           s1 == IF ContainsPhrase(text) THEN Emit(s0, "log:phrase_in_response") ELSE s0
       IN IF m.tc = "are"
            THEN IF ~s1.closingPhraseDetected \/ ~ContainsPhrase(text)
                   THEN [s |-> Emit(s1, "log:premature_response"), done |-> TRUE]
                   ELSE [s |-> Emit(ArmHangup(s1, "resp"), "log:accepted_response"),
                         done |-> TRUE]
            ELSE [s |-> resetSilenceTimer(TouchActivity(checkForClosingPhrase(s1, text))),
                  done |-> FALSE]

\* toolCallsArray holds an end_call: message.tool_calls, else the turns of
\* message.transcript (lines 1208-1235)
ArrayHasEndCall(m) == m.tc \in {"root", "transcript"}

\* a variant of HandleToolCallsArray that looks at the flag alone
HandleToolCallsArrayFlagOnly(s, m) ==
  IF ~ArrayHasEndCall(m) THEN [s |-> s, done |-> FALSE]
  ELSE IF ~s.closingPhraseDetected
    THEN [s |-> Emit(s, "log:premature_array"), done |-> TRUE]
    ELSE [s |-> Emit(ArmHangup(s, "array"), "log:accepted_array"), done |-> TRUE]

\* lines 1237-1313
HandleToolCallsArray(s, m) ==
  IF ~ArrayHasEndCall(m) THEN [s |-> s, done |-> FALSE]
  ELSE LET currentAgentText == OrText(CurrentAgentText(m), s.lastAgentResponse)
       IN IF ~s.closingPhraseDetected \/ ~ContainsPhrase(currentAgentText)
            THEN [s |-> Emit(s, "log:premature_array"), done |-> TRUE]
            ELSE [s |-> Emit(ArmHangup(s, "array"), "log:accepted_array"),
                  done |-> TRUE]

IsConversationEnd(m) == m.type = "conversation_end" \/ m.term

\* a variant of HandleConversationEnd without the closingPhraseDetected check
HandleConversationEndUnguarded(s, m) ==
  IF ~IsConversationEnd(m) THEN [s |-> s, done |-> FALSE]
  ELSE [s |-> Emit(ArmHangup(s, "convEnd"), "log:conv_end"), done |-> TRUE]

\* a variant of HandleConversationEnd that hangs up at once
HandleConversationEndImmediate(s, m) ==
  IF ~IsConversationEnd(m) THEN [s |-> s, done |-> FALSE]
  ELSE IF ~s.closingPhraseDetected
    THEN [s |-> Emit(s, "log:conv_end_ignored"), done |-> TRUE]
    ELSE [s |-> safeEndCall(Emit(s, "log:conv_end")), done |-> TRUE]

\* lines 1315-1361
HandleConversationEnd(s, m) ==
  IF ~IsConversationEnd(m) THEN [s |-> s, done |-> FALSE]
  ELSE IF ~s.closingPhraseDetected
    THEN [s |-> Emit(s, "log:conv_end_ignored"), done |-> TRUE]
    ELSE [s |-> Emit(ArmHangup(s, "convEnd"), "log:conv_end"), done |-> TRUE]

\* lines 1363-1370
HandleUserTranscript(s, m) ==
  IF m.type = "user_transcript" THEN resetSilenceTimer(TouchActivity(s)) ELSE s

OnAIMessage(s, m) ==
  LET s1 == HandleAudio(MainCheck(PreCheck(s, m), m), m)
      r2 == HandleAgentResponse(s1, m)
      r3 == IF r2.done THEN r2 ELSE HandleToolCallsArray(r2.s, m)
      r4 == IF r3.done THEN r3 ELSE HandleConversationEnd(r3.s, m)
  IN IF r4.done THEN r4.s ELSE HandleUserTranscript(r4.s, m)

\* the message handler is registered on the connections the start handler
\* creates; the socket delivers messages until its close event
AIMessage(c, m) ==
  /\ conns[c].state \in {"OPEN", "CLOSING"}
  /\ ~conns[c].fallback
  /\ Commit(OnAIMessage(Cur, m))

\* the frames of a sequence, newest first
Reversed(frames) == [i \in 1 .. Len(frames) |-> frames[Len(frames) + 1 - i]]

\* a variant of the "open" handler that flushes the newest frame first
OnAIOpenNewestFirst(s, c) ==
  LET s0 == [s EXCEPT !.conns[c].state = "OPEN"]
  IN IF ElState(s0) = "CONNECTING" THEN s0
     ELSE LET s1 == IF ElState(s0) = "OPEN" THEN Emit(s0, "config") ELSE s0
              s2 == [s1 EXCEPT !.elevenLabsReady = TRUE]
              s3 == IF s2.callEnding THEN s2
                    ELSE IF Len(s2.audioBuffer) > 0 /\ ElState(s2) = "OPEN"
                      THEN SendChunks([s2 EXCEPT !.audioBuffer = << >>],
                                      Reversed(s2.audioBuffer))
                      ELSE [s2 EXCEPT !.audioBuffer = << >>]
          IN IF s.conns[c].fallback THEN s3
             ELSE resetSilenceTimer(updateActivity(
                    IF s3.callEnding THEN [s3 EXCEPT !.audioBuffer = << >>] ELSE s3))

\* ------------------------------------------------ AI connection events
\* the "open" handler (541-685; fallback: 1427-1484).  It sends through the
\* variable elevenLabsWs; send() throws while that socket is CONNECTING.
OnAIOpen(s, c) ==
  LET s0 == [s EXCEPT !.conns[c].state = "OPEN"]
  IN IF ElState(s0) = "CONNECTING" THEN s0
     ELSE LET s1 == IF ElState(s0) = "OPEN" THEN Emit(s0, "config") ELSE s0
              s2 == [s1 EXCEPT !.elevenLabsReady = TRUE]
              s3 == IF s2.callEnding THEN s2
                    ELSE IF Len(s2.audioBuffer) > 0 /\ ElState(s2) = "OPEN"
                      THEN SendChunks([s2 EXCEPT !.audioBuffer = << >>],
                                      s2.audioBuffer)
                      ELSE [s2 EXCEPT !.audioBuffer = << >>]
          IN IF s.conns[c].fallback THEN s3
             ELSE resetSilenceTimer(updateActivity(
                    IF s3.callEnding THEN [s3 EXCEPT !.audioBuffer = << >>] ELSE s3))

AIOpen(c) ==
  /\ conns[c].state = "CONNECTING"
  /\ Commit(OnAIOpen(Cur, c))

\* the "close" handler (698-710, 1493-1500): the connect failed, the
\* provider closed, or the close handshake of close() completed
OnAIClose(s, c) ==
  [s EXCEPT !.conns[c].state = "CLOSED", !.elevenLabsReady = FALSE]

AIClose(c) ==
  /\ conns[c].state \in {"CONNECTING", "OPEN", "CLOSING"}
  /\ Commit(OnAIClose(Cur, c))

\* ------------------------------------- telephony message handler (449-1639)
NewConn(s) == Cardinality({c \in ConnIds : s.conns[c].state # "NONE"}) + 1

\* case "start" up to the await of getSignedUrl (489-528)
OnStart(s, sid, hasAgentId) ==
  LET s1 == updateActivity([s EXCEPT !.streamSid = sid, !.callSid = sid,
                                     !.durationExceeded = FALSE])
  IN IF ~hasAgentId THEN Emit(s1, "log:no_agent_id")
     ELSE [s1 EXCEPT !.pendingStart = @ + 1]

TwilioStart(sid, hasAgentId) ==
  /\ ws \in {"OPEN", "CLOSING"}
  /\ NewConn(Cur) + pendingStart + (IF pendingFallback THEN 1 ELSE 0) <= MaxConns
  /\ Commit(OnStart(Cur, sid, hasAgentId))

\* the start handler resumes with the signed URL (534-541, 1384)
StartSetupDone ==
  /\ pendingStart > 0
  /\ LET c == NewConn(Cur)
     IN Commit(resetSilenceTimer(
          [Cur EXCEPT !.pendingStart = @ - 1,
                      !.conns[c] = [state |-> "CONNECTING", fallback |-> FALSE],
                      !.elevenLabsWs = c]))

\* getSignedUrl threw (1381-1384)
StartSetupFailed ==
  /\ pendingStart > 0
  /\ Commit(resetSilenceTimer([Cur EXCEPT !.pendingStart = @ - 1]))

\* a variant of case "media" whose full buffer keeps its oldest frames
OnMediaKeepOldest(s, frame) ==
  IF s.callEnding THEN Emit(s, "log:ignoring_audio")
  ELSE IF s.elevenLabsWs = 0 \/ ElState(s) # "OPEN" \/ ~s.elevenLabsReady
    THEN LET s1 == IF ~s.elevenLabsSetupAttempted /\ s.callSid # 0
                     THEN [s EXCEPT !.elevenLabsSetupAttempted = TRUE,
                                    !.pendingFallback = TRUE]
                     ELSE s
             pushed == Append(s1.audioBuffer, frame)
         IN Emit([s1 EXCEPT !.audioBuffer =
                    IF Len(pushed) > BUFFER_LIMIT
                      THEN SubSeq(pushed, 1, BUFFER_LIMIT) ELSE pushed],
                 "log:buffering")
    ELSE resetSilenceTimer(updateActivity(SendChunks(s, << frame >>)))

\* a variant of case "media" without the callEnding check
OnMediaWhileEnding(s, frame) ==
  IF s.elevenLabsWs = 0 \/ ElState(s) # "OPEN" \/ ~s.elevenLabsReady
    THEN LET s1 == IF ~s.elevenLabsSetupAttempted /\ s.callSid # 0
                     THEN [s EXCEPT !.elevenLabsSetupAttempted = TRUE,
                                    !.pendingFallback = TRUE]
                     ELSE s
             pushed == Append(s1.audioBuffer, frame)
         IN Emit([s1 EXCEPT !.audioBuffer =
                    IF Len(pushed) > BUFFER_LIMIT THEN Tail(pushed) ELSE pushed],
                 "log:buffering")
    ELSE resetSilenceTimer(updateActivity(SendChunks(s, << frame >>)))

\* case "media" (1387-1595)
OnMedia(s, frame) ==
  LET s0 == s
  IN IF s0.callEnding THEN Emit(s0, "log:ignoring_audio")
     ELSE IF s0.elevenLabsWs = 0 \/ ElState(s0) # "OPEN" \/ ~s0.elevenLabsReady
       THEN LET s1 == IF ~s0.elevenLabsSetupAttempted /\ s0.callSid # 0
                        THEN [s0 EXCEPT !.elevenLabsSetupAttempted = TRUE,
                                        !.pendingFallback = TRUE]
                        ELSE s0
                pushed == Append(s1.audioBuffer, frame)
            IN Emit([s1 EXCEPT !.audioBuffer =
                       IF Len(pushed) > BUFFER_LIMIT THEN Tail(pushed) ELSE pushed],
                    "log:buffering")
       ELSE resetSilenceTimer(updateActivity(SendChunks(s0, << frame >>)))

TwilioMedia(frame) ==
  /\ ws \in {"OPEN", "CLOSING"}
  /\ LET s == OnMedia(Cur, frame)
     IN /\ Len(s.audioBuffer) <= MaxBuffered
        /\ Commit(s)

\* the fallback setup resumes with the signed URL (1423-1427)
FallbackSetupDone ==
  /\ pendingFallback
  /\ LET c == NewConn(Cur)
     IN Commit([Cur EXCEPT !.pendingFallback = FALSE,
                           !.conns[c] = [state |-> "CONNECTING", fallback |-> TRUE],
                           !.elevenLabsWs = c])

\* getSignedUrl threw in the fallback setup (1501-1506)
FallbackSetupFailed ==
  /\ pendingFallback
  /\ Commit([Cur EXCEPT !.pendingFallback = FALSE])

\* a variant of case "stop" that obeys the stop event whatever the flag
OnStopUnguarded(s) == ElCloseIfOpen(ClearClosingTimer(ClearSilenceTimer(s)))

\* case "stop" (1597-1628)
OnStop(s) ==
  IF ~s.closingPhraseDetected THEN Emit(s, "log:blocked_stop")
  ELSE ElCloseIfOpen(ClearClosingTimer(ClearSilenceTimer(s)))

TwilioStop ==
  /\ ws \in {"OPEN", "CLOSING"}
  /\ Commit(OnStop(Cur))

\* ws.on("close") (1641-1658): the caller hung up, or the close handshake
\* of ws.close() completed
OnWsClose(s) ==
  ElCloseIfOpen(ClearClosingTimer(ClearSilenceTimer([s EXCEPT !.ws = "CLOSED"])))

WsCloseEvent ==
  /\ ws \in {"OPEN", "CLOSING"}
  /\ Commit(OnWsClose(Cur))

\* The session of one stream.  The telephony leg sends one start event; the
\* signed-URL request of the media fallback stays pending; neither leg
\* delivers a message after close() was called on its socket.
FirstStart(hasAgentId) == streamSid = 0 /\ TwilioStart(1, hasAgentId)
Media(frame) == ws = "OPEN" /\ TwilioMedia(frame)
Stop == ws = "OPEN" /\ TwilioStop
Message(c, m) == conns[c].state = "OPEN" /\ AIMessage(c, m)

Next ==
  \/ \E hasAgentId \in BOOLEAN : FirstStart(hasAgentId)
  \/ StartSetupDone
  \/ StartSetupFailed
  \/ \E frame \in Payloads : Media(frame)
  \/ Stop
  \/ WsCloseEvent
  \/ \E c \in ConnIds : AIOpen(c)
  \/ \E c \in ConnIds : AIClose(c)
  \/ \E c \in ConnIds, m \in Messages : Message(c, m)
  \/ SilenceTimerFires(MaxResets)
  \/ HangupTimerFires
  \/ EndTimeoutFires

Spec == Init /\ [][Next]_vars

\* The idle session: the caller and the agent stay silent for minutes.  The
\* AI leg delivers utterances and audio without tool calls, and the silence
\* timer fires up to the reset ceiling.
IdleMessages ==
  { m \in Messages : m.tc = "none" /\ ~m.term /\ m.type # "conversation_end"
                       /\ m.type # "other" }

IdleMessage(c, m) == conns[c].state = "OPEN" /\ AIMessage(c, m)

NextIdle ==
  \/ \E hasAgentId \in BOOLEAN : FirstStart(hasAgentId)
  \/ StartSetupDone
  \/ \E c \in ConnIds : AIOpen(c)
  \/ \E c \in ConnIds, m \in IdleMessages : IdleMessage(c, m)
  \/ SilenceTimerFires(MaxIdleResets)
  \/ HangupTimerFires
  \/ EndTimeoutFires
  \/ WsCloseEvent

SpecIdle == Init /\ [][NextIdle]_vars

\* The session under a wall clock that can be set back.  Date.now() is the
\* system time; when it is adjusted between the last audio frame and a
\* hang-up callback, Date.now() - lastAudioTime can be below the window
\* although the callback ran no sooner than its delay.
ClockOutcomes(window) == IF window = 0 THEN {FALSE} ELSE BOOLEAN

HangupTimerFiresSkewed ==
  \E t \in PendingHangups(Cur) :
    \E recent \in ClockOutcomes(Window(t.kind, t.stage)) :
      LET s == HangupCallback(Cur, t, recent)
      IN /\ s.endTimeouts <= MaxEndTimeouts
         /\ Cardinality(s.nestedTimeouts) <= MaxNested
         /\ Commit(s)

NextSkew ==
  \/ \E hasAgentId \in BOOLEAN : FirstStart(hasAgentId)
  \/ StartSetupDone
  \/ \E c \in ConnIds : AIOpen(c)
  \/ \E c \in ConnIds, m \in IdleMessages : IdleMessage(c, m)
  \/ SilenceTimerFires(MaxResets)
  \/ HangupTimerFiresSkewed
  \/ EndTimeoutFires
  \/ WsCloseEvent

SpecSkew == Init /\ [][NextSkew]_vars

\* The buffering session: the telephony leg sends up to MaxFrames media
\* frames, numbered in the order they arrive, while the AI connections of
\* the start handler and of the media fallback are set up, open and close.
\* The agent may say goodbye, after which the hang-up timer ends the call.
Goodbye ==
  [type |-> "agent_response", term |-> FALSE, tc |-> "none",
   areText |-> [len |-> 40, idx |-> 18], trText |-> NoText]

NumberedMedia ==
  /\ ws \in {"OPEN", "CLOSING"}
  /\ received < MaxFrames
  /\ Commit(OnMedia([Cur EXCEPT !.received = @ + 1], received + 1))

NextBuffer ==
  \/ \E hasAgentId \in BOOLEAN : FirstStart(hasAgentId)
  \/ StartSetupDone
  \/ StartSetupFailed
  \/ NumberedMedia
  \/ FallbackSetupDone
  \/ FallbackSetupFailed
  \/ \E c \in ConnIds : AIOpen(c)
  \/ \E c \in ConnIds : AIClose(c)
  \/ \E c \in ConnIds : IdleMessage(c, Goodbye)
  \/ HangupTimerFires
  \/ EndTimeoutFires
  \/ WsCloseEvent

SpecBuffer == Init /\ [][NextBuffer]_vars

\* The busy session: a conversation without a closing phrase that goes on
\* past the maximum call duration.  The silence timer becomes due only when
\* 25 s pass without a call of resetSilenceTimer; a due callback runs unless
\* a handler that runs before it clears the timer.
AgentAudio ==
  [type |-> "audio", term |-> FALSE, tc |-> "none",
   areText |-> NoText, trText |-> NoText]

BusyMessages == {m \in IdleMessages : ~PhraseAtEnd(m.areText)}

BusyMessage(c, m) == conns[c].state = "OPEN" /\ AIMessage(c, m)

\* 25 s pass in which no handler calls resetSilenceTimer
QuietPeriod ==
  /\ silenceTimer = "armed"
  /\ Commit([Cur EXCEPT !.silenceTimer = "due"])

\* Date.now() - callStartTime grows beyond MAX_CALL_DURATION
TenMinutesPass ==
  /\ streamSid # 0
  /\ ~durationExceeded
  /\ Commit([Cur EXCEPT !.durationExceeded = TRUE])

DueSilenceTimerFires ==
  /\ silenceTimer = "due"
  /\ silenceTimerResetCount < MaxResets
  /\ \E ie \in CeilingOutcomes(inactivityExceeded),
        de \in CeilingOutcomes(durationExceeded) :
       Commit(SilenceCallback(Cur, ie, de))

NextBusy ==
  \/ FirstStart(TRUE)
  \/ StartSetupDone
  \/ \E c \in ConnIds : AIOpen(c)
  \/ \E c \in ConnIds, m \in BusyMessages : BusyMessage(c, m)
  \/ \E frame \in Payloads : Media(frame)
  \/ QuietPeriod
  \/ TenMinutesPass
  \/ DueSilenceTimerFires
  \/ WsCloseEvent

\* A due callback is run by the event loop; the agent keeps sending audio
\* and the caller keeps sending media frames as long as the sockets allow.
SpecBusy ==
  /\ Init
  /\ [][NextBusy]_vars
  /\ WF_vars(DueSilenceTimerFires)
  /\ WF_vars(\E c \in ConnIds : BusyMessage(c, AgentAudio))
  /\ WF_vars(\E frame \in Payloads : Media(frame))

\* The session around its closing phrase: the agent says goodbye and is
\* silent afterwards, the caller's leg sends media frames and stop events,
\* and the timers run; the signed-URL request of the media fallback stays
\* pending.  A timeout that is pending is run by the event loop, and a close
\* handshake that was started completes.
CloseCompletes == ws = "CLOSING" /\ WsCloseEvent

AICloseCompletes == \E c \in ConnIds : conns[c].state = "CLOSING" /\ AIClose(c)

NextHangup ==
  \/ FirstStart(TRUE)
  \/ StartSetupDone
  \/ \E c \in ConnIds : AIOpen(c)
  \/ \E c \in ConnIds, m \in {Goodbye, AgentAudio} :
       ~closingPhraseDetected /\ IdleMessage(c, m)
  \/ \E frame \in Payloads : Media(frame)
  \/ Stop
  \/ SilenceTimerFires(MaxResets)
  \/ HangupTimerFires
  \/ EndTimeoutFires
  \/ CloseCompletes
  \/ AICloseCompletes

SpecHangup ==
  /\ Init
  /\ [][NextHangup]_vars
  /\ WF_vars(SilenceTimerFires(MaxResets))
  /\ WF_vars(HangupTimerFires)
  /\ WF_vars(EndTimeoutFires)
  /\ WF_vars(CloseCompletes)
  /\ WF_vars(AICloseCompletes)

\* The session without an agent: the signed-URL request of the start
\* handler or of the media fallback is refused, or the socket it creates
\* fails to connect, so that no AI connection ever opens, while the caller's
\* leg keeps sending media frames.  The requests are answered and a pending
\* silence timeout is run by the event loop.
ConnectFails == \E c \in ConnIds : conns[c].state = "CONNECTING" /\ AIClose(c)

WaitingMedia == received < MaxWaiting /\ NumberedMedia

SetupAnswered ==
  StartSetupDone \/ StartSetupFailed \/ FallbackSetupDone \/ FallbackSetupFailed

NextUnready ==
  \/ \E hasAgentId \in BOOLEAN : FirstStart(hasAgentId)
  \/ StartSetupDone
  \/ StartSetupFailed
  \/ FallbackSetupDone
  \/ FallbackSetupFailed
  \/ ConnectFails
  \/ WaitingMedia
  \/ SilenceTimerFires(MaxIdleResets)
  \/ CloseCompletes

SpecUnready ==
  /\ Init
  /\ [][NextUnready]_vars
  /\ WF_vars(SetupAnswered)
  /\ WF_vars(ConnectFails)
  /\ WF_vars(SilenceTimerFires(MaxIdleResets))
  /\ WF_vars(CloseCompletes)

\* The session under messages of every kind: the agent speaks and the AI
\* leg delivers directives and termination signals, with or without text,
\* while the caller's leg only listens; the hang-up timers run.
NextSignals ==
  \/ FirstStart(TRUE)
  \/ StartSetupDone
  \/ \E c \in ConnIds : AIOpen(c)
  \/ \E c \in ConnIds, m \in Messages : Message(c, m)
  \/ HangupTimerFires
  \/ EndTimeoutFires
  \/ WsCloseEvent

SpecSignals == Init /\ [][NextSignals]_vars

\* ------------------------------------------------- the session on the wire
\* Both message handlers receive text and hand it to JSON.parse inside a
\* try block (450-463, 713-725).  A text is modelled by whether JSON.parse
\* accepts it and, when it does, by the value it returns; on any other text
\* JSON.parse throws and control passes to the catch block of the handler.
NoValue == [event |-> "none", payload |-> "", hasAgentId |-> FALSE]

TwilioTexts ==
  {[json |-> FALSE, value |-> NoValue]}
    \cup {[json |-> TRUE,
           value |-> [event |-> "start", payload |-> "", hasAgentId |-> a]] :
          a \in BOOLEAN}
    \cup {[json |-> TRUE,
           value |-> [event |-> "media", payload |-> p, hasAgentId |-> FALSE]] :
          p \in Payloads}
    \cup {[json |-> TRUE,
           value |-> [event |-> e, payload |-> "", hasAgentId |-> FALSE]] :
          e \in {"stop", "mark"}}

AITexts ==
  {[json |-> FALSE, value |-> AgentAudio]}
    \cup {[json |-> TRUE, value |-> m] : m \in BusyMessages \cup {Goodbye}}

\* a variant of the telephony handler that ends the call on a text it
\* cannot parse
OnWsTextFatal(s, text) ==
  IF ~text.json THEN forceEndCall(Emit(s, "log:twilio_error"))
  ELSE CASE text.value.event = "start" ->
              OnStart(s, 1, text.value.hasAgentId)
         [] text.value.event = "media" -> OnMedia(s, text.value.payload)
         [] text.value.event = "stop" -> OnStop(s)
         [] OTHER -> s

\* ws.on("message") (449-1639): the catch block (1630-1637) only logs
OnWsText(s, text) ==
  IF ~text.json THEN Emit(s, "log:twilio_error")
  ELSE CASE text.value.event = "start" ->
              OnStart(s, 1, text.value.hasAgentId)
         [] text.value.event = "media" -> OnMedia(s, text.value.payload)
         [] text.value.event = "stop" -> OnStop(s)
         [] OTHER -> s

\* elevenLabsWs.on("message") (712-1380): the catch block (1371-1379) only
\* logs
OnAIText(s, text) ==
  IF ~text.json THEN Emit(s, "log:ai_error")
  ELSE OnAIMessage(s, text.value)

WsText(text) ==
  /\ ws \in {"OPEN", "CLOSING"}
  /\ (text.json /\ text.value.event = "start") =>
       /\ streamSid = 0
       /\ NewConn(Cur) + pendingStart <= MaxConns
  /\ LET s == OnWsText(Cur, text)
     IN /\ Len(s.audioBuffer) <= MaxBuffered
        /\ Commit(s)

AIText(c, text) ==
  /\ conns[c].state = "OPEN"
  /\ ~conns[c].fallback
  /\ Commit(OnAIText(Cur, text))

NextWire ==
  \/ \E text \in TwilioTexts : WsText(text)
  \/ StartSetupDone
  \/ \E c \in ConnIds : AIOpen(c)
  \/ \E c \in ConnIds, text \in AITexts : AIText(c, text)
  \/ SilenceTimerFires(MaxResets)
  \/ HangupTimerFires
  \/ EndTimeoutFires
  \/ WsCloseEvent

SpecWire == Init /\ [][NextWire]_vars

\* -------------------------------------------------- two concurrent sessions
\* Every telephony connection runs the connection callback once; the
\* variables of lines 121-136 are declared with let inside it, so each
\* connection has its own.  The module declares no variable the handlers
\* write.  The second connection's variables are the record peer, and its
\* handlers are the same functions applied to that record.
session == << ws, streamSid, callSid, elevenLabsWs, conns, pendingStart,
              pendingFallback, silenceTimer, closingPhraseTimer,
              nestedTimeouts, endTimeouts, closingPhraseDetected,
              lastAgentResponse, audioBuffer, elevenLabsReady,
              elevenLabsSetupAttempted, silenceTimerResetCount, callEnding,
              inactivityExceeded, durationExceeded, emitted, chunks,
              received >>

PeerCur == [peer EXCEPT !.emitted = {}, !.chunks = << >>]

\* a variant in which closingPhraseDetected is one variable of the module,
\* shared by all connections
CommitPeerSharedFlag(p) ==
  /\ peer' = p
  /\ closingPhraseDetected' = p.closingPhraseDetected
  /\ UNCHANGED << ws, streamSid, callSid, elevenLabsWs, conns, pendingStart,
                  pendingFallback, silenceTimer, closingPhraseTimer,
                  nestedTimeouts, endTimeouts, lastAgentResponse, audioBuffer,
                  elevenLabsReady, elevenLabsSetupAttempted,
                  silenceTimerResetCount, callEnding, inactivityExceeded,
                  durationExceeded, emitted, chunks, received, probe >>

\* a handler of the second connection assigns its own variables only
CommitPeer(p) == peer' = p /\ UNCHANGED << session, probe >>

TwoMessages == {AgentAudio, Goodbye}

PeerStart ==
  /\ peer.ws = "OPEN"
  /\ peer.streamSid = 0
  /\ CommitPeer(OnStart(PeerCur, 2, TRUE))

PeerSetupDone ==
  /\ peer.pendingStart > 0
  /\ LET c == NewConn(PeerCur)
     IN CommitPeer(resetSilenceTimer(
          [PeerCur EXCEPT !.pendingStart = @ - 1,
                          !.conns[c] = [state |-> "CONNECTING", fallback |-> FALSE],
                          !.elevenLabsWs = c]))

PeerAIOpen(c) ==
  /\ peer.conns[c].state = "CONNECTING"
  /\ CommitPeer(OnAIOpen(PeerCur, c))

PeerMessage(c, m) ==
  /\ peer.conns[c].state = "OPEN"
  /\ ~peer.conns[c].fallback
  /\ CommitPeer(OnAIMessage(PeerCur, m))

PeerMedia(frame) ==
  /\ peer.ws = "OPEN"
  /\ LET p == OnMedia(PeerCur, frame)
     IN /\ Len(p.audioBuffer) <= MaxBuffered
        /\ CommitPeer(p)

PeerHangupTimerFires ==
  \E t \in PendingHangups(PeerCur) :
    \E recent \in RecentOutcomes(Delay(t.kind, t.stage),
                                 Window(t.kind, t.stage), t.audioSince) :
      LET p == HangupCallback(PeerCur, t, recent)
      IN /\ p.endTimeouts <= MaxEndTimeouts
         /\ CommitPeer(p)

PeerEndTimeoutFires ==
  /\ peer.endTimeouts > 0
  /\ CommitPeer(EndCallback(PeerCur))

PeerWsCloseEvent ==
  /\ peer.ws \in {"OPEN", "CLOSING"}
  /\ CommitPeer(OnWsClose(PeerCur))

InitTwo == InitSession /\ peer = Cur /\ probe = NoProbe

NextTwo ==
  \/ FirstStart(TRUE)
  \/ StartSetupDone
  \/ \E c \in ConnIds : AIOpen(c)
  \/ \E c \in ConnIds, m \in TwoMessages : IdleMessage(c, m)
  \/ \E frame \in Payloads : Media(frame)
  \/ HangupTimerFires
  \/ EndTimeoutFires
  \/ WsCloseEvent
  \/ PeerStart
  \/ PeerSetupDone
  \/ \E c \in ConnIds : PeerAIOpen(c)
  \/ \E c \in ConnIds, m \in TwoMessages : PeerMessage(c, m)
  \/ \E frame \in Payloads : PeerMedia(frame)
  \/ PeerHangupTimerFires
  \/ PeerEndTimeoutFires
  \/ PeerWsCloseEvent

SpecTwo == InitTwo /\ [][NextTwo]_vars

\* ================================================ src/campaign-outbound.js
\* The media-stream session of the campaign server (lines 40-677).  Its
\* closure variables are a subset of those of part_002 and are kept in the
\* same variables; the others stay as Init leaves them.

campaign_Delay(kind, stage) ==
  IF stage = 1
    THEN CASE kind = "phrase" -> CO_PHRASE_DELAY
           [] kind = "main" -> CO_MAIN_DELAY
           [] kind \in {"resp", "array"} -> CO_TOOL_DELAY
           [] OTHER -> CO_CONV_END_DELAY
    ELSE IF stage = 2 /\ kind = "main" THEN CO_WAIT_LONG ELSE CO_WAIT_SHORT

campaign_Window(kind, stage) ==
  IF stage = 1
    THEN IF kind \in {"main", "array"} THEN CO_RECENT_LONG ELSE CO_RECENT_SHORT
    ELSE IF stage = 2 /\ kind = "main" THEN CO_RECENT_SHORT ELSE 0

\* the hang-up every callback of the campaign session ends in: stop frame,
\* close of the AI connection, ws.close()
campaign_hangUp(s) ==
  LET s1 == IF s.streamSid # 0 THEN WsSend(s, "stop") ELSE s
  IN WsClose(ElCloseIfOpen(s1))

\* lines 58-70: clearTimeout, setTimeout
campaign_resetSilenceTimer(s) ==
  [s EXCEPT !.silenceTimer = "armed"]

\* the callback of the silence timer (lines 60-69)
campaign_SilenceCallback(s) ==
  Emit(campaign_hangUp([s EXCEPT !.silenceTimer = "spent"]), "log:no_activity")

\* lines 75-138: the phrase is looked for in the whole text
campaign_checkForClosingPhrase(s, text) ==
  IF ContainsPhrase(text) /\ ~s.closingPhraseDetected
    THEN Emit(ArmHangup([s EXCEPT !.closingPhraseDetected = TRUE], "phrase"),
              "log:phrase")
    ELSE s

\* a hang-up callback: agent audio is recent and a follow-up timeout is
\* scheduled, or the call is hung up
campaign_HangupCallback(s, t, recent) ==
  LET s0 == IF t.stage = 1
              THEN [s EXCEPT !.closingPhraseTimer = SpentTimer]
              ELSE [s EXCEPT !.nestedTimeouts = @ \ {t}]
  IN IF recent
       THEN [s0 EXCEPT !.nestedTimeouts =
               @ \cup {[kind |-> t.kind, stage |-> t.stage + 1,
                        audioSince |-> FALSE]}]
       ELSE Emit(campaign_hangUp(s0),
                 IF t.kind \in {"main", "resp", "array"}
                   THEN "log:hangup_after_end_call"
                   ELSE "log:hangup")

\* lines 209-249
campaign_checkForEndCallTool(m) == m.tc # "none"

\* lines 253-304: premature exactly when no closing phrase was detected
campaign_hasPrematureEndCall(s, m) ==
  campaign_checkForEndCallTool(m) /\ ~s.closingPhraseDetected

\* lines 307-383
campaign_MainCheck(s, m) ==
  IF ~campaign_checkForEndCallTool(m) THEN s
  ELSE IF campaign_hasPrematureEndCall(s, m) THEN Emit(s, "log:premature")
  ELSE Emit(ArmHangup(s, "main"), "log:accepted")

\* lines 386-401
campaign_HandleAudio(s, m) ==
  IF m.type = "audio" /\ s.streamSid # 0
    THEN campaign_resetSilenceTimer(TouchAudio(WsSend(s, "media")))
    ELSE s

\* lines 404-467
campaign_HandleAgentResponse(s, m) ==
  IF m.type # "agent_response" THEN [s |-> s, done |-> FALSE]
  ELSE LET text == m.areText
           s1 == [s EXCEPT !.lastAgentResponse = text]
       IN IF m.tc = "are"
            THEN [s |-> Emit(ArmHangup(s1, "resp"), "log:accepted_response"),
                  done |-> TRUE]
            ELSE [s |-> campaign_resetSilenceTimer(
                          campaign_checkForClosingPhrase(s1, text)),
                  done |-> FALSE]

\* lines 470-558
campaign_HandleToolCallsArray(s, m) ==
  IF m.tc \in {"root", "transcript"}
    THEN [s |-> Emit(ArmHangup(s, "array"), "log:accepted_array"), done |-> TRUE]
    ELSE [s |-> s, done |-> FALSE]

\* lines 562-620
campaign_HandleConversationEnd(s, m) ==
  IF ~(m.type = "conversation_end" \/ m.term) THEN [s |-> s, done |-> FALSE]
  ELSE IF ~s.closingPhraseDetected
    THEN [s |-> Emit(s, "log:conv_end_ignored"), done |-> TRUE]
    ELSE [s |-> Emit(ArmHangup(s, "convEnd"), "log:conv_end"), done |-> TRUE]

\* lines 623-629
campaign_HandleUserTranscript(s, m) ==
  IF m.type = "user_transcript" THEN campaign_resetSilenceTimer(s) ELSE s

\* the message handler of the AI connection (lines 182-633)
campaign_OnAIMessage(s, m) ==
  LET s1 == campaign_HandleAudio(campaign_MainCheck(s, m), m)
      r2 == campaign_HandleAgentResponse(s1, m)
      r3 == IF r2.done THEN r2 ELSE campaign_HandleToolCallsArray(r2.s, m)
      r4 == IF r3.done THEN r3 ELSE campaign_HandleConversationEnd(r3.s, m)
  IN IF r4.done THEN r4.s ELSE campaign_HandleUserTranscript(r4.s, m)

\* case "start" up to the await of getSignedUrl (lines 148-162)
campaign_OnStart(s, sid, hasAgentId) ==
  LET s1 == [s EXCEPT !.streamSid = sid, !.callSid = sid]
  IN IF ~hasAgentId THEN Emit(s1, "log:no_agent_id")
     ELSE [s1 EXCEPT !.pendingStart = @ + 1]

\* case "media" (lines 640-653)
campaign_OnMedia(s, frame) ==
  IF ElState(s) = "OPEN" THEN campaign_resetSilenceTimer(Emit(s, "chunk")) ELSE s

\* case "stop" (lines 655-662)
campaign_OnStop(s) == ElCloseIfOpen(ClearClosingTimer(ClearSilenceTimer(s)))

\* ws.on("close") (lines 669-676)
campaign_OnWsClose(s) ==
  ElCloseIfOpen(ClearClosingTimer(ClearSilenceTimer([s EXCEPT !.ws = "CLOSED"])))

\* the "open" handler (lines 165-180)
campaign_OnAIOpen(s, c) ==
  LET s0 == [s EXCEPT !.conns[c].state = "OPEN"]
  IN IF ElState(s0) = "OPEN" THEN Emit(s0, "config") ELSE s0

CampaignStart(hasAgentId) ==
  /\ ws = "OPEN"
  /\ streamSid = 0
  /\ Commit(campaign_OnStart(Cur, 1, hasAgentId))

\* the start handler resumes with the signed URL (lines 162-163, 637)
CampaignSetupDone ==
  /\ pendingStart > 0
  /\ LET c == NewConn(Cur)
     IN Commit(campaign_resetSilenceTimer(
          [Cur EXCEPT !.pendingStart = @ - 1,
                      !.conns[c] = [state |-> "CONNECTING", fallback |-> FALSE],
                      !.elevenLabsWs = c]))

\* getSignedUrl threw (lines 634-637)
CampaignSetupFailed ==
  /\ pendingStart > 0
  /\ Commit(campaign_resetSilenceTimer([Cur EXCEPT !.pendingStart = @ - 1]))

CampaignMedia(frame) ==
  /\ ws = "OPEN"
  /\ Commit(campaign_OnMedia(Cur, frame))

CampaignStop ==
  /\ ws = "OPEN"
  /\ Commit(campaign_OnStop(Cur))

CampaignWsClose ==
  /\ ws \in {"OPEN", "CLOSING"}
  /\ Commit(campaign_OnWsClose(Cur))

CampaignAIOpen(c) ==
  /\ conns[c].state = "CONNECTING"
  /\ Commit(campaign_OnAIOpen(Cur, c))

\* the AI connection closes; the session registers no handler for it
CampaignAIClose(c) ==
  /\ conns[c].state \in {"CONNECTING", "OPEN", "CLOSING"}
  /\ Commit([Cur EXCEPT !.conns[c].state = "CLOSED"])

CampaignMessage(c, m) ==
  /\ conns[c].state = "OPEN"
  /\ Commit(campaign_OnAIMessage(Cur, m))

CampaignSilenceTimerFires ==
  /\ silenceTimer = "armed"
  /\ Commit(campaign_SilenceCallback(Cur))

CampaignHangupTimerFires ==
  \E t \in PendingHangups(Cur) :
    \E recent \in RecentOutcomes(campaign_Delay(t.kind, t.stage),
                                 campaign_Window(t.kind, t.stage), t.audioSince) :
      LET s == campaign_HangupCallback(Cur, t, recent)
      IN /\ Cardinality(s.nestedTimeouts) <= MaxNested
         /\ Commit(s)

NextCampaign ==
  \/ \E hasAgentId \in BOOLEAN : CampaignStart(hasAgentId)
  \/ CampaignSetupDone
  \/ CampaignSetupFailed
  \/ \E frame \in Payloads : CampaignMedia(frame)
  \/ CampaignStop
  \/ CampaignWsClose
  \/ \E c \in ConnIds : CampaignAIOpen(c)
  \/ \E c \in ConnIds : CampaignAIClose(c)
  \/ \E c \in ConnIds, m \in Messages : CampaignMessage(c, m)
  \/ CampaignSilenceTimerFires
  \/ CampaignHangupTimerFires

SpecCampaign == Init /\ [][NextCampaign]_vars

\* ============================================ src/simple-websocket-server.js
\* The media-stream session of the simple server (lines 67-255).  Its closure
\* variables are ws, streamSid, callSid, elevenLabsWs and customParameters;
\* it has no timers.  chunks holds the frames the last handler sent to the
\* AI provider, each with the connection it was sent on.
MaxEventId == 2

\* -1: the ping has no ping_event, or its ping_event has no event_id
NoEventId == -1
PingEventIds == 0 .. MaxEventId

simple_Messages ==
  [type : {"audio", "interruption", "agent_response"}, event_id : {NoEventId}]
    \cup [type : {"ping"}, event_id : PingEventIds \cup {NoEventId}]

Ping(id) == [type |-> "ping", event_id |-> id]

\* the value of message.ping_event?.event_id as the condition of an if:
\* undefined and the number 0 are falsy
Truthy(id) == id # NoEventId /\ id # 0

\* elevenLabsWs.send(frame): sends on the connection the variable refers
\* to; WebSocket.send throws while the socket is connecting and sends
\* nothing once close() was called or the socket is closed
simple_ElSend(s, type, id) ==
  LET e == s.elevenLabsWs
  IN IF e = 0 THEN Emit(s, "throw")
     ELSE CASE s.conns[e].state = "OPEN" ->
                 [s EXCEPT !.chunks =
                    Append(@, [conn |-> e, type |-> type, event_id |-> id])]
            [] s.conns[e].state = "CONNECTING" -> Emit(s, "throw")
            [] OTHER -> s

\* setupElevenLabs up to the await of getSignedUrl (lines 81-96)
simple_OnStart(s, sid, hasAgentId) ==
  LET s1 == [s EXCEPT !.streamSid = sid, !.callSid = sid]
  IN IF ~hasAgentId THEN Emit(s1, "log:no_agent_id")
     ELSE [s1 EXCEPT !.pendingStart = @ + 1]

\* the "open" handler (lines 100-122)
simple_OnAIOpen(s, c) ==
  simple_ElSend([s EXCEPT !.conns[c].state = "OPEN"], "config", NoEventId)

\* the "message" handler (lines 124-185); an exception thrown in the switch
\* is caught and logged
simple_OnAIMessage(s, m) ==
  LET r == CASE m.type = "audio" ->
                  IF s.streamSid # 0 THEN WsSend(s, "media") ELSE s
             [] m.type = "interruption" ->
                  IF s.streamSid # 0 THEN WsSend(s, "clear") ELSE s
             [] m.type = "ping" ->
                  IF Truthy(m.event_id)
                    THEN simple_ElSend(s, "pong", m.event_id) ELSE s
             [] OTHER -> Emit(s, "log:message")
  IN IF "throw" \in r.emitted THEN Emit(s, "log:ai_error") ELSE r

\* case "media" (lines 222-232)
simple_OnMedia(s, frame) ==
  IF ElState(s) = "OPEN" THEN simple_ElSend(s, "user_audio_chunk", NoEventId)
  ELSE s

\* case "stop" (lines 234-239)
simple_OnStop(s) == ElCloseIfOpen(s)

\* ws.on("close") (lines 249-254)
simple_OnWsClose(s) == ElCloseIfOpen([s EXCEPT !.ws = "CLOSED"])

\* the handler accepts a start event whenever one arrives
SimpleStart(hasAgentId) ==
  /\ ws = "OPEN"
  /\ NewConn(Cur) + pendingStart <= MaxConns
  /\ Commit(simple_OnStart(Cur, 1, hasAgentId))

\* setupElevenLabs resumes with the signed URL (lines 96-98)
SimpleSetupDone ==
  /\ pendingStart > 0
  /\ LET c == NewConn(Cur)
     IN Commit([Cur EXCEPT !.pendingStart = @ - 1,
                           !.conns[c] = [state |-> "CONNECTING", fallback |-> FALSE],
                           !.elevenLabsWs = c])

\* getSignedUrl threw (lines 194-196)
SimpleSetupFailed ==
  /\ pendingStart > 0
  /\ Commit(Emit([Cur EXCEPT !.pendingStart = @ - 1], "log:setup_error"))

SimpleAIOpen(c) ==
  /\ conns[c].state = "CONNECTING"
  /\ Commit(simple_OnAIOpen(Cur, c))

SimpleAIMessage(c, m) ==
  /\ conns[c].state = "OPEN"
  /\ Commit(simple_OnAIMessage(Cur, m))

\* the "close" handler (lines 191-193) only logs
SimpleAIClose(c) ==
  /\ conns[c].state \in {"CONNECTING", "OPEN", "CLOSING"}
  /\ Commit(Emit([Cur EXCEPT !.conns[c].state = "CLOSED"], "log:disconnected"))

SimpleMedia(frame) ==
  /\ ws = "OPEN"
  /\ Commit(simple_OnMedia(Cur, frame))

SimpleStop ==
  /\ ws = "OPEN"
  /\ Commit(simple_OnStop(Cur))

SimpleWsClose ==
  /\ ws = "OPEN"
  /\ Commit(simple_OnWsClose(Cur))

NextSimple ==
  \/ \E hasAgentId \in BOOLEAN : SimpleStart(hasAgentId)
  \/ SimpleSetupDone
  \/ SimpleSetupFailed
  \/ \E c \in ConnIds : SimpleAIOpen(c)
  \/ \E c \in ConnIds, m \in simple_Messages : SimpleAIMessage(c, m)
  \/ \E c \in ConnIds : SimpleAIClose(c)
  \/ \E frame \in Payloads : SimpleMedia(frame)
  \/ SimpleStop
  \/ SimpleWsClose

SpecSimple == Init /\ [][NextSimple]_vars

\* ======================================================= functions of text
\* checkForClosingPhrase on the text itself.  A text is its length and the
\* places where one of the four phrases is written in it: the index of the
\* first character, the phrase (its position in closingPhrases) and whether
\* any of its letters is written in upper case.
MaxOccurrences == 2

closingPhrases == 1 .. 4
\* "nog een fijne dag", "prettige dag", "fijne dag",
\* "succes met uw accreditatie"
PhraseLen == << 17, 12, 9, 26 >>
\* "fijne dag" is written inside "nog een fijne dag", 8 characters in
NESTED_AT == 8

TextLens == {30, 160, 400}
Places == {2, 10, 120, 250}
Occurrences == [at : Places, phrase : closingPhrases, caps : BOOLEAN]

RECURSIVE OccSets(_)
OccSets(n) ==
  IF n = 0 THEN {{}}
  ELSE LET fewer == OccSets(n - 1)
       IN fewer \cup {S \cup {o} : S \in fewer, o \in Occurrences}

\* every "nog een fijne dag" is also a "fijne dag"
WithNested(occ) ==
  occ \cup {[at |-> o.at + NESTED_AT, phrase |-> 3, caps |-> o.caps] :
            o \in {x \in occ : x.phrase = 1}}

IsNested(a, b) == a.phrase = 1 /\ b.phrase = 3 /\ b.at = a.at + NESTED_AT

\* the occurrences lie inside the text and two of them share characters
\* only when one is written inside the other
WellFormed(raw) ==
  /\ \A o \in raw.occ : o.at + PhraseLen[o.phrase] <= raw.len
  /\ \A a, b \in raw.occ :
       a # b => \/ a.at + PhraseLen[a.phrase] <= b.at
                \/ b.at + PhraseLen[b.phrase] <= a.at
                \/ IsNested(a, b) \/ IsNested(b, a)

RawTexts ==
  { raw \in { [len |-> n, occ |-> WithNested(S)] :
                n \in TextLens, S \in OccSets(MaxOccurrences) } :
      WellFormed(raw) }

\* String.prototype.toLowerCase
toLowerCase(raw) == [raw EXCEPT !.occ = {[o EXCEPT !.caps = FALSE] : o \in @}]

\* str.indexOf(phrase): the comparison is exact, so a phrase written with an
\* upper-case letter is not found
indexOf(str, phrase) ==
  LET hits == {o.at : o \in {x \in str.occ : x.phrase = phrase /\ ~x.caps}}
  IN IF hits = {} THEN -1
     ELSE CHOOSE i \in hits : \A j \in hits : i <= j

\* str.substring(from): a phrase that starts before from is cut
substring(str, from) ==
  [len |-> str.len - from,
   occ |-> {[o EXCEPT !.at = @ - from] : o \in {x \in str.occ : x.at >= from}}]

includes(str, phrase) == indexOf(str, phrase) # -1

\* a variant of the return value that compares the text as it is written
closingPhraseFoundAsWritten(raw) ==
  \E phrase \in closingPhrases :
    /\ indexOf(raw, phrase) # -1
    /\ includes(substring(raw, Max(0, raw.len - TAIL_CHARS)), phrase)

\* the value checkForClosingPhrase(text) returns (lines 331-446): true at
\* the first phrase of the list that is in the text and in its last 150
\* characters, false when the loop ends
closingPhraseFound(raw) ==
  LET lowerText == toLowerCase(raw)
  IN \E phrase \in closingPhrases :
       /\ indexOf(lowerText, phrase) # -1
       /\ LET textEnd == substring(lowerText, Max(0, lowerText.len - TAIL_CHARS))
          IN includes(textEnd, phrase)

\* the text as the session handlers see it: its length and the index of the
\* last phrase written in it
TextOf(raw) ==
  [len |-> raw.len,
   idx |-> IF raw.occ = {} THEN -1
           ELSE CHOOSE i \in {o.at : o \in raw.occ} :
                  \A o \in raw.occ : o.at <= i]

\* checkForClosingPhrase(text) is called in a session; probe keeps the
\* text, the value returned and the two variables as they were at the call
ProbePhrase(raw) ==
  /\ CommitSession(checkForClosingPhrase(Cur, TextOf(raw)))
  /\ probe' = [fn |-> "checkForClosingPhrase", text |-> raw,
               result |-> closingPhraseFound(raw),
               detected |-> closingPhraseDetected,
               timer |-> closingPhraseTimer]
  /\ UNCHANGED peer

NextPhrase ==
  \/ \E raw \in RawTexts : ProbePhrase(raw)

SpecPhrase == Init /\ [][NextPhrase]_vars

\* ==================================================== functions of messages
\* checkForEndCallTool on the parsed message itself.  A field that holds tool
\* calls is absent, one tool call object, or an array of tool call objects;
\* transcript is absent, an array of turns, or a value that is not an array;
\* agent_response_event is absent or an object.
MaxCalls == 2
MaxTurns == 1

ToolNames == {"end_call", "transfer_to_agent"}
ToolCalls == [tool_name : ToolNames]

RECURSIVE SeqsUpTo(_, _)
SeqsUpTo(S, n) ==
  IF n = 0 THEN {<< >>}
  ELSE LET shorter == SeqsUpTo(S, n - 1)
       IN shorter \cup {Append(q, x) : q \in shorter, x \in S}

NoCalls == [kind |-> "absent", calls |-> << >>]
ToolCallsValues ==
  {NoCalls}
    \cup {[kind |-> "object", calls |-> << tc >>] : tc \in ToolCalls}
    \cup {[kind |-> "array", calls |-> q] : q \in SeqsUpTo(ToolCalls, MaxCalls)}

Turns == [tool_calls : ToolCallsValues]
NoTranscript == [kind |-> "absent", turns |-> << >>]
TranscriptValues ==
  {NoTranscript}
    \cup {[kind |-> "object", turns |-> << t >>] : t \in Turns}
    \cup {[kind |-> "array", turns |-> q] : q \in SeqsUpTo(Turns, MaxTurns)}

NoEvent == [kind |-> "absent", tool_calls |-> NoCalls]
EventValues ==
  {NoEvent} \cup {[kind |-> "object", tool_calls |-> v] : v \in ToolCallsValues}

NullObject ==
  [kind |-> "null", tool_calls |-> NoCalls, transcript |-> NoTranscript,
   agent_response_event |-> NoEvent]
ToolObjects ==
  {NullObject}
    \cup [kind : {"object"}, tool_calls : ToolCallsValues,
          transcript : TranscriptValues, agent_response_event : EventValues]

\* if (x.tool_calls): an absent field is undefined, an object and an array,
\* the empty one included, are truthy
Given(v) == v.kind # "absent"

\* toolCalls = Array.isArray(v) ? v : [v];
\* for (const tc of toolCalls) if (tc.tool_name === "end_call") return true
LoopFindsEndCall(v) ==
  \E i \in 1 .. Len(v.calls) : v.calls[i].tool_name = "end_call"

\* a variant that reads obj.agent_response_event.tool_calls without ?.
EndCallToolResultUnchained(obj) ==
  IF obj.kind = "null" THEN "false"
  ELSE IF Given(obj.tool_calls) /\ LoopFindsEndCall(obj.tool_calls) THEN "true"
  ELSE IF /\ obj.transcript.kind = "array"
          /\ \E i \in 1 .. Len(obj.transcript.turns) :
               LET turn == obj.transcript.turns[i]
               IN Given(turn.tool_calls) /\ LoopFindsEndCall(turn.tool_calls)
    THEN "true"
  ELSE IF obj.agent_response_event.kind = "absent" THEN "throw"
  ELSE IF /\ Given(obj.agent_response_event.tool_calls)
          /\ LoopFindsEndCall(obj.agent_response_event.tool_calls)
    THEN "true"
  ELSE "false"

\* checkForEndCallTool(obj) (lines 771-811): "true", "false", or "throw"
\* when it reads a property of undefined
EndCallToolResult(obj) ==
  IF obj.kind = "null" THEN "false"
  ELSE IF Given(obj.tool_calls) /\ LoopFindsEndCall(obj.tool_calls) THEN "true"
  ELSE IF /\ obj.transcript.kind = "array"
          /\ \E i \in 1 .. Len(obj.transcript.turns) :
               LET turn == obj.transcript.turns[i]
               IN Given(turn.tool_calls) /\ LoopFindsEndCall(turn.tool_calls)
    THEN "true"
  ELSE IF /\ obj.agent_response_event.kind # "absent"
          /\ Given(obj.agent_response_event.tool_calls)
          /\ LoopFindsEndCall(obj.agent_response_event.tool_calls)
    THEN "true"
  ELSE "false"

\* the function is given a message and applied to it
InitTool ==
  /\ InitSession
  /\ peer = NoSession
  /\ probe \in {[fn |-> "message", obj |-> o, result |-> "none"] :
                o \in ToolObjects}

ApplyTool ==
  /\ probe.fn = "message"
  /\ probe' = [fn |-> "checkForEndCallTool", obj |-> probe.obj,
               result |-> EndCallToolResult(probe.obj)]
  /\ UNCHANGED << session, peer >>

NextTool == ApplyTool

SpecTool == InitTool /\ [][NextTool]_vars

\* ============================================================ properties
\* A property of one handler is stated over the handler as a function: in
\* every reachable state in which the event can be delivered, the state the
\* handler leaves has the property.

\* the AI leg can deliver a message to the message handler
AIDeliverable == \E c \in ConnIds : conns[c].state = "OPEN" /\ ~conns[c].fallback

\* an end_call directive or a conversation-end signal
IsEndSignal(m) == checkForEndCallTool(m) \/ IsConversationEnd(m)

HangupCalls == {"stop", "el.close", "ws.close"}
DirectiveKinds == {"main", "resp", "array"}
AcceptedLogs == {"log:accepted", "log:accepted_response", "log:accepted_array"}

\* the handler that took s to r armed no hang-up timer and ended nothing
Suppressed(s, r) ==
  /\ r.closingPhraseTimer = s.closingPhraseTimer
  /\ r.nestedTimeouts = s.nestedTimeouts
  /\ r.endTimeouts = s.endTimeouts
  /\ r.callEnding = s.callEnding
  /\ r.ws = s.ws
  /\ r.conns = s.conns
  /\ r.emitted \cap HangupCalls = {}

AtMainCheck(s, m) == PreCheck(s, m)
AtResponseCheck(s, m) ==
  [HandleAudio(MainCheck(PreCheck(s, m), m), m) EXCEPT !.lastAgentResponse = m.areText]
AtArrayCheck(s, m) ==
  HandleAgentResponse(HandleAudio(MainCheck(PreCheck(s, m), m), m), m).s

\* closingPhraseDetected is true and the text used for the check contains a
\* closing phrase
DirectiveMayArm(s, m) ==
  /\ s.closingPhraseDetected
  /\ ContainsPhrase(OrText(CurrentAgentText(m), s.lastAgentResponse))

\* C2: an end_call directive arms a hang-up timer only if, when it is
\* evaluated, closingPhraseDetected is true and the agent text used for the
\* check (the message's agent_response, else transcript[0].agent_response,
\* else lastAgentResponse) contains a closing phrase; this holds for the
\* main check, the agent_response tool_calls check and the tool_calls array
\* check, and a message none of whose checks accepts leaves no timer armed
\* by a directive that was not armed before.
C2_DirectiveArmsOnlyAfterPhrase ==
  \A m \in Messages :
    AIDeliverable =>
      LET r == OnAIMessage(Cur, m)
      IN /\ "log:accepted" \in r.emitted => DirectiveMayArm(AtMainCheck(Cur, m), m)
         /\ "log:accepted_response" \in r.emitted
              => DirectiveMayArm(AtResponseCheck(Cur, m), m)
         /\ "log:accepted_array" \in r.emitted
              => DirectiveMayArm(AtArrayCheck(Cur, m), m)
         /\ (/\ r.emitted \cap AcceptedLogs = {}
             /\ r.closingPhraseTimer.state = "armed"
             /\ r.closingPhraseTimer.kind \in DirectiveKinds)
              => r.closingPhraseTimer = closingPhraseTimer

\* the tool_calls array check just accepted a directive and armed its timer
C2_Witness ==
  /\ "log:accepted_array" \in emitted
  /\ closingPhraseTimer = ArmedTimer("array")
  /\ closingPhraseDetected

\* ------------------------------------------------------------------- C3
\* C3: a hang-up callback is pending only while closingPhraseDetected is
\* true, and a step that sends the stop frame or closes the telephony socket
\* while closingPhraseDetected is false is forceEndCall after a ceiling was
\* exceeded.
C3_HangupNeedsPhraseOrCeiling ==
  /\ PendingHangups(Cur) # {} => closingPhraseDetected
  /\ endTimeouts > 0 => closingPhraseDetected
  /\ (~closingPhraseDetected /\ emitted \cap {"stop", "ws.close"} # {})
       => /\ "log:forced" \in emitted
          /\ \/ inactivityExceeded
             \/ durationExceeded
             \/ silenceTimerResetCount > MAX_SILENCE_RESETS

\* forceEndCall just ran on an exceeded ceiling without a closing phrase
C3_Witness ==
  /\ ~closingPhraseDetected
  /\ "log:forced" \in emitted
  /\ "ws.close" \in emitted
  /\ inactivityExceeded \/ durationExceeded
  /\ PendingHangups(Cur) = {}

\* ------------------------------------------------------------------- C7
\* C7: while callEnding is true no audio is enqueued into audioBuffer and no
\* audio frame is forwarded in either direction: no handler sends a
\* user_audio_chunk to the AI leg or a media frame to the telephony leg.
C7_NoAudioWhileEnding ==
  callEnding =>
    /\ \A m \in Messages :
         AIDeliverable => "media" \notin OnAIMessage(Cur, m).emitted
    /\ \A frame \in Payloads :
         ws = "OPEN" =>
           LET r == OnMedia(Cur, frame)
           IN "chunk" \notin r.emitted /\ Len(r.audioBuffer) <= Len(audioBuffer)
    /\ \A c \in ConnIds :
         conns[c].state = "CONNECTING" => "chunk" \notin OnAIOpen(Cur, c).emitted

\* ------------------------------------------------------------------- C8
\* C8: once callEnding is true no later step sends another stop frame to
\* the telephony leg.
C8_NoSecondStop == [][callEnding => "stop" \notin emitted']_vars

\* ------------------------------------------------------------------- C9
\* C9: closingPhraseDetected is monotonic: once true, no step sets it back
\* to false.
C9_FlagMonotonic == [][closingPhraseDetected => closingPhraseDetected']_vars

\* with the flag set, a directive was just suppressed because the tracked
\* utterance holds no closing phrase, and the flag is still set
C9_Witness ==
  /\ closingPhraseDetected
  /\ "log:premature" \in emitted
  /\ ~ContainsPhrase(lastAgentResponse)

C4_DirectiveIgnoredBeforePhrase ==
  /\ \A m \in Messages :
       (AIDeliverable /\ ~closingPhraseDetected /\ campaign_checkForEndCallTool(m))
         => LET r == campaign_OnAIMessage(Cur, m)
            IN ~(/\ r.closingPhraseTimer.state = "armed"
                 /\ r.closingPhraseTimer.kind \in DirectiveKinds)
  /\ "log:hangup_after_end_call" \in emitted => closingPhraseDetected

\* ------------------------------------------------------------------- C5
\* C5: when the silence timer fires while closingPhraseDetected is false and
\* no ceiling is exceeded (inactivity, call duration, and the incremented
\* reset count is at most 20), no stop frame is sent and no connection is
\* closed, the silence timer is armed again and silenceTimerResetCount has
\* grown by exactly one.
C5_IdleFireRearms ==
  (silenceTimer = "armed" /\ ~closingPhraseDetected) =>
    \A ie \in CeilingOutcomes(inactivityExceeded),
       de \in CeilingOutcomes(durationExceeded) :
      (~ie /\ ~de /\ silenceTimerResetCount + 1 <= MAX_SILENCE_RESETS) =>
        LET r == SilenceCallback(Cur, ie, de)
        IN /\ r.emitted \cap HangupCalls = {}
           /\ r.ws = ws
           /\ r.conns = conns
           /\ r.callEnding = callEnding
           /\ r.silenceTimer = "armed"
           /\ r.silenceTimerResetCount = silenceTimerResetCount + 1

\* the twentieth fire in a row just armed the timer again
C5_Witness ==
  /\ "log:not_hanging_up" \in emitted
  /\ silenceTimerResetCount = MAX_SILENCE_RESETS
  /\ silenceTimer = "armed"
  /\ ~closingPhraseDetected
  /\ ws = "OPEN"
  /\ ElState(Cur) = "OPEN"

\* ------------------------------------------------------------------- C6
\* C6: when the silence timer fires with closingPhraseDetected false and the
\* incremented silenceTimerResetCount is greater than MAX_SILENCE_RESETS (the
\* 21st fire in a row), the session is force-terminated: the stop frame is
\* sent if streamSid is set and the telephony socket is open, the AI
\* connection is closed if open, ws.close() is called and the silence timer
\* is not armed again; with 20 or fewer fires and no other ceiling exceeded
\* it is not force-terminated.
C6_ForcedAtTwentyFirstFire ==
  (silenceTimer = "armed" /\ ~closingPhraseDetected) =>
    \A ie \in CeilingOutcomes(inactivityExceeded),
       de \in CeilingOutcomes(durationExceeded) :
      LET r == SilenceCallback(Cur, ie, de)
      IN /\ silenceTimerResetCount + 1 > MAX_SILENCE_RESETS =>
              /\ "log:forced" \in r.emitted
              /\ (streamSid # 0 /\ ws = "OPEN") => "stop" \in r.emitted
              /\ ElState(Cur) = "OPEN" =>
                   ("el.close" \in r.emitted /\ ElState(r) = "CLOSING")
              /\ "ws.close" \in r.emitted
              /\ r.ws # "OPEN"
              /\ r.silenceTimer # "armed"
         /\ (silenceTimerResetCount + 1 <= MAX_SILENCE_RESETS /\ ~ie /\ ~de) =>
              /\ "log:forced" \notin r.emitted
              /\ r.emitted \cap HangupCalls = {}

\* the 21st fire in a row just force-terminated the session, no other
\* ceiling being exceeded
C6_Witness ==
  /\ "log:forced" \in emitted
  /\ silenceTimerResetCount = MAX_SILENCE_RESETS + 1
  /\ ~inactivityExceeded
  /\ ~durationExceeded
  /\ ~closingPhraseDetected
  /\ {"stop", "el.close", "ws.close"} \subseteq emitted
  /\ ws = "CLOSING"
  /\ silenceTimer # "armed"

\* ------------------------------------------------------------------ C11
\* C11: when an agent audio frame arrives while closingPhraseDetected is
\* true and a hang-up timer is armed, the handler cancels the armed timer
\* and starts a fresh one: the only hang-up callback pending afterwards was
\* armed at or after that frame, and in no reachable state is a hang-up
\* callback pending that was armed before an audio frame forwarded since.
C11_AudioRestartsTimer ==
  /\ \A m \in Messages :
       (/\ AIDeliverable
        /\ m.type = "audio"
        /\ closingPhraseDetected
        /\ closingPhraseTimer.state = "armed")
         => LET r == OnAIMessage(Cur, m)
            IN /\ "log:timer_reset" \in r.emitted
               /\ r.closingPhraseTimer.state = "armed"
               /\ ~r.closingPhraseTimer.audioSince
               /\ m.tc = "none" => r.closingPhraseTimer = ArmedTimer("reset")
               /\ r.nestedTimeouts = {}
  /\ \A t \in PendingHangups(Cur) : ~t.audioSince

\* an audio frame just replaced the armed timer by the 10 s timer
C11_Witness ==
  /\ emitted = {"media", "log:timer_reset"}
  /\ closingPhraseTimer = ArmedTimer("reset")
  /\ closingPhraseDetected
  /\ ~callEnding

\* ------------------------------------------------------------------ C12
\* C12: a hang-up from the timer chain happens only after silence: whenever
\* a pending hang-up callback can call safeEndCall, no agent audio frame was
\* forwarded since the callback was armed, and it was armed at least the
\* trailing window (3 s) before, for every interleaving of audio frames and
\* callbacks.
C12_HangupOnlyAfterSilence ==
  \A t \in PendingHangups(Cur) :
    \A recent \in RecentOutcomes(Delay(t.kind, t.stage),
                                 Window(t.kind, t.stage), t.audioSince) :
      "log:ending" \in HangupCallback(Cur, t, recent).emitted
        => (~t.audioSince /\ Delay(t.kind, t.stage) >= RECENT_SHORT)

\* the 10 s timer started by the last audio frame just ran and hung up
C12_Witness ==
  /\ {"log:ending", "stop"} \subseteq emitted
  /\ closingPhraseTimer = SpentTimer
  /\ silenceTimer = "armed"
  /\ callEnding
  /\ endTimeouts = 1

C14_AllMessages ==
  \A m \in Messages :
    AIDeliverable
      => LET r == OnAIMessage(Cur, m)
         IN /\ r.emitted \cap (HangupCalls \cup {"log:ending"}) = {}
            /\ r.ws = ws
            /\ r.conns = conns
            /\ r.callEnding = callEnding
            /\ r.endTimeouts = endTimeouts
            /\ (m.type = "agent_response" /\ PhraseAtEnd(m.areText)
                  /\ ~closingPhraseDetected)
                 => (/\ r.closingPhraseDetected
                     /\ r.closingPhraseTimer.state = "armed"
                     /\ ~r.closingPhraseTimer.audioSince
                     /\ Delay(r.closingPhraseTimer.kind, 1) >= CONV_END_DELAY
                     /\ ~IsEndSignal(m)
                          => (/\ r.closingPhraseTimer = ArmedTimer("phrase")
                              /\ "log:phrase" \in r.emitted
                              /\ Delay("phrase", 1) = PHRASE_DELAY))

\* an utterance that ends with a closing phrase just set the flag and armed
\* the 25 s timer; nothing was sent and nothing is closed
C14_Witness ==
  /\ "log:phrase" \in emitted
  /\ emitted \cap HangupCalls = {}
  /\ closingPhraseDetected
  /\ PhraseAtEnd(lastAgentResponse)
  /\ closingPhraseTimer = ArmedTimer("phrase")
  /\ ws = "OPEN"
  /\ ~callEnding
  /\ endTimeouts = 0
  /\ AIDeliverable

\* ------------------------------------------------------------------ C15
\* C15: in an active session (telephony socket open, call not ending),
\* after an agent utterance without a closing phrase, an end_call
\* directive (carrying no closing phrase of its own) is suppressed and the
\* session stays active: no hang-up timer is armed, nothing is sent or
\* closed, closingPhraseDetected stays false, and audio is relayed as
\* before in both directions.
C15_DirectiveAfterPlainUtterance ==
  \A m \in Messages :
    (/\ AIDeliverable
     /\ ws = "OPEN"
     /\ ~callEnding
     /\ ~closingPhraseDetected
     /\ lastAgentResponse.len > 0
     /\ ~ContainsPhrase(lastAgentResponse)
     /\ checkForEndCallTool(m)
     /\ ~ContainsPhrase(CurrentAgentText(m)))
      => LET r == OnAIMessage(Cur, m)
         IN /\ Suppressed(Cur, r)
            /\ r.closingPhraseTimer.state # "armed"
            /\ ~r.closingPhraseDetected
            /\ r.emitted \cap AcceptedLogs = {}
            /\ r.elevenLabsWs = elevenLabsWs
            /\ r.elevenLabsReady = elevenLabsReady
            /\ r.streamSid = streamSid
            /\ \A a \in Messages :
                 (a.type = "audio" /\ a.tc = "none" /\ r.streamSid # 0)
                   => "media" \in OnAIMessage(r, a).emitted
            /\ \A frame \in Payloads :
                 "chunk" \in OnMedia(Cur, frame).emitted
                   => "chunk" \in OnMedia(r, frame).emitted

\* a directive was just suppressed after a plain utterance; both legs are
\* open and the relay is ready
C15_Witness ==
  /\ "log:premature" \in emitted
  /\ ~closingPhraseDetected
  /\ lastAgentResponse.len > 0
  /\ ~ContainsPhrase(lastAgentResponse)
  /\ closingPhraseTimer = NullTimer
  /\ ws = "OPEN"
  /\ ~callEnding
  /\ AIDeliverable
  /\ elevenLabsReady
  /\ streamSid # 0

\* ------------------------------------------------------------------ C16
\* the handler that took s to r armed the 10 s hang-up timer in place of
\* any armed one and ended nothing
ArmedConvEnd(s, r) ==
  /\ r.closingPhraseTimer = ArmedTimer("convEnd")
  /\ PendingHangups(r) = {[kind |-> "convEnd", stage |-> 1, audioSince |-> FALSE]}
  /\ Delay("convEnd", 1) = CONV_END_DELAY
  /\ r.emitted \cap (HangupCalls \cup {"log:ending"}) = {}
  /\ r.callEnding = s.callEnding
  /\ r.endTimeouts = s.endTimeouts
  /\ r.ws = s.ws
  /\ r.conns = s.conns

Frames(from, to) == [i \in 1 .. (to - from + 1) |-> from + i - 1]

\* the media handler applied to the next frame of the stream
NextMedia == OnMedia([Cur EXCEPT !.received = @ + 1], received + 1)

\* C17: audioBuffer never holds more than 50 frames; a frame that arrives
\* while the buffer holds 50 evicts the oldest one, so that the buffer then
\* holds the 50 most recent frames in arrival order.
C17_BufferKeepsNewestFifty ==
  /\ Len(audioBuffer) <= BUFFER_LIMIT
  /\ "log:buffering" \in emitted
       => /\ audioBuffer # << >>
          /\ audioBuffer =
               Frames(audioBuffer[Len(audioBuffer)] - Len(audioBuffer) + 1, received)
  /\ "log:buffering" \in NextMedia.emitted
       => NextMedia.audioBuffer =
            IF Len(audioBuffer) = BUFFER_LIMIT
              THEN Append(Tail(audioBuffer), received + 1)
              ELSE Append(audioBuffer, received + 1)

\* the 51st frame just evicted the first one
C17_Witness ==
  /\ "log:buffering" \in emitted
  /\ received = BUFFER_LIMIT + 1
  /\ audioBuffer = Frames(2, BUFFER_LIMIT + 1)

\* ------------------------------------------------------------------ C18
\* frame numbers grow along the sequence: arrival order, no frame twice
InArrivalOrder(frames) ==
  \A i \in 1 .. Len(frames) - 1 : frames[i] < frames[i + 1]

\* C18: inbound audio is relayed first in, first out.  The frames waiting in
\* audioBuffer and the chunks one handler sends are frames of the stream in
\* arrival order without repetition; the "open" handler sends the whole
\* buffer oldest first, or nothing, and leaves the buffer empty when it
\* sent; a media frame is forwarded directly only while the buffer is
\* empty, and then it is the only chunk sent.  So every chunk sent is newer
\* than every chunk sent before it.
C18_RelayInArrivalOrder ==
  /\ InArrivalOrder(audioBuffer)
  /\ InArrivalOrder(chunks)
  /\ \A i \in 1 .. Len(audioBuffer) : audioBuffer[i] \in 1 .. received
  /\ \A i \in 1 .. Len(chunks) : chunks[i] \in 1 .. received
  /\ \A i \in 1 .. Len(chunks), j \in 1 .. Len(audioBuffer) :
       chunks[i] < audioBuffer[j]
  /\ (elevenLabsReady /\ ElState(Cur) = "OPEN" /\ ~callEnding)
       => audioBuffer = << >>
  /\ \A c \in ConnIds :
       conns[c].state = "CONNECTING"
         => LET r == OnAIOpen(Cur, c)
            IN /\ r.chunks \in {<< >>, audioBuffer}
               /\ r.chunks # << >> => r.audioBuffer = << >>
               /\ (r.elevenLabsReady /\ ElState(r) = "OPEN" /\ ~r.callEnding)
                    => r.audioBuffer = << >>
  /\ "chunk" \in NextMedia.emitted
       => /\ NextMedia.chunks = << received + 1 >>
          /\ audioBuffer = << >>
          /\ NextMedia.audioBuffer = << >>

\* the "open" handler just flushed a full buffer, oldest frame first
C18_Witness ==
  /\ "config" \in emitted
  /\ chunks = Frames(received - BUFFER_LIMIT + 1, received)
  /\ received > BUFFER_LIMIT
  /\ audioBuffer = << >>
  /\ elevenLabsReady

\* ------------------------------------------------------------------ C19
\* C19: after the telephony socket has closed, both timers are cancelled by
\* the close handler and no AI connection is open: the one that was open
\* has been told to close, and one that was still being set up (signed URL
\* pending, or socket connecting) does not end up open.
C19_NoOpenAIConnAfterHangup ==
  /\ ws \in {"OPEN", "CLOSING"}
       => LET r == OnWsClose(Cur)
          IN /\ r.silenceTimer # "armed"
             /\ r.closingPhraseTimer.state # "armed"
             /\ \A c \in ConnIds : r.conns[c].state # "OPEN"
  /\ ws = "CLOSED" => \A c \in ConnIds : conns[c].state # "OPEN"

\* ------------------------------------------------------------------ C20
\* C20: once the telephony socket has closed, no timer of the session is
\* pending or armed again (neither the idle timer nor a hang-up timer or a
\* follow-up timeout), and no step sends a stop frame or calls close() on
\* the closed telephony socket.
C20_QuietAfterHangup ==
  ws = "CLOSED"
    => /\ silenceTimer # "armed"
       /\ PendingHangups(Cur) = {}
       /\ emitted \cap {"stop", "ws.close"} = {}

\* ------------------------------------------------------------------ C21
\* C21: when the AI socket of the session closes although the session did
\* not call close() on it (it is OPEN and the telephony socket is open), the
\* close handler tears the session down: it calls close() on the telephony
\* socket and leaves neither the silence timer nor a hang-up timer armed.
C21_AICloseTearsDown ==
  \A c \in ConnIds :
    (ws = "OPEN" /\ conns[c].state = "OPEN" /\ elevenLabsWs = c)
      => LET r == OnAIClose(Cur, c)
         IN /\ r.ws # "OPEN"
            /\ "ws.close" \in r.emitted
            /\ r.silenceTimer # "armed"
            /\ r.closingPhraseTimer.state # "armed"

\* ------------------------------------------------------------------ C22
\* the AI connections created so far (new WebSocket(signedUrl) was called)
Created == {c \in ConnIds : conns[c].state # "NONE"}

\* C22: at most one AI connection is ever created for a session: neither a
\* media frame that arrives while the connection of the start event is
\* being set up, nor a failure or close of the AI connection, leads to a
\* second socket.
C22_OneAIConnection == Cardinality(Created) <= 1

\* ------------------------------------------------------------------ C23
\* C23: every start event leaves the idle timer armed.  A start handler that
\* finishes without waiting for a signed URL (the parameters carry no
\* agent_id) has armed the silence timer when it returns; so has the handler
\* that resumed after the request, whether it succeeded or failed.
C23_StartArmsIdleTimer ==
  /\ (ws = "OPEN" /\ streamSid = 0)
       => \A hasAgentId \in BOOLEAN :
            LET r == OnStart(Cur, 1, hasAgentId)
            IN r.pendingStart = pendingStart => r.silenceTimer = "armed"
  /\ "log:no_agent_id" \in emitted => silenceTimer = "armed"

\* ------------------------------------------------------------------ C24
\* C24: the maximum call duration is an absolute ceiling: a session without
\* a closing phrase whose duration exceeds MAX_CALL_DURATION is eventually
\* ended (the telephony socket does not stay open), whatever activity
\* continues.
C24_DurationCeiling ==
  (durationExceeded /\ ~closingPhraseDetected /\ ws = "OPEN") ~> (ws # "OPEN")

\* ---------------------------------------------------------------- C25
\* C25: a text that JSON.parse rejects, arriving on the telephony socket or
\* on an AI connection, is discarded: the handler leaves every session
\* variable as it was and sends nothing on either socket (its only effect
\* is the error it logs), so that every text that follows is handled as if
\* the rejected one had never arrived.
Sends(s) == {x \in s.emitted : x \notin {"log:twilio_error", "log:ai_error"}}

C25_UnparseableDiscarded ==
  /\ \A text \in TwilioTexts :
       ~text.json =>
         LET r == OnWsText(Cur, text)
         IN /\ [r EXCEPT !.emitted = {}] = Cur
            /\ Sends(r) = {}
            /\ \A next \in TwilioTexts :
                 OnWsText([r EXCEPT !.emitted = {}], next) = OnWsText(Cur, next)
  /\ \A text \in AITexts :
       ~text.json =>
         LET r == OnAIText(Cur, text)
         IN /\ [r EXCEPT !.emitted = {}] = Cur
            /\ Sends(r) = {}
            /\ \A next \in AITexts :
                 OnAIText([r EXCEPT !.emitted = {}], next) = OnAIText(Cur, next)

\* a rejected text has arrived on an AI connection in the middle of a call,
\* with audio buffered or timers armed, and the session is as it was
C25_Witness ==
  /\ emitted = {"log:ai_error"}
  /\ ws = "OPEN"
  /\ closingPhraseDetected
  /\ closingPhraseTimer # NullTimer
  /\ silenceTimer = "armed"

\* ---------------------------------------------------------------- C26
\* C26: with two telephony connections open at the same time, a step of
\* one session (a message, a socket event or a timer callback of that
\* connection) leaves every variable of the other session as it was.
C26_SessionsIndependent ==
  [][/\ (peer' # peer) => (session' = session)
     /\ (session' # session) => (peer' = peer)]_vars

\* both sessions are in a call: one has heard the closing phrase and has
\* its hang-up timer armed, the other has not and is still relaying audio
C26_Witness ==
  /\ closingPhraseDetected
  /\ closingPhraseTimer.state = "armed"
  /\ ~peer.closingPhraseDetected
  /\ peer.elevenLabsReady
  /\ peer.chunks # << >>

\* ---------------------------------------------------------------- C27
\* C27: in the simple server, every ping that carries an event id and is
\* received on an open AI connection is answered on that connection with
\* exactly one pong carrying the same event id, and a message that is not
\* a ping is answered with no pong.
Pongs(s) == SelectSeq(s.chunks, LAMBDA f : f.type = "pong")

C27_EveryPingAnswered ==
  \A c \in ConnIds :
    conns[c].state = "OPEN" =>
      /\ \A id \in PingEventIds :
           Pongs(simple_OnAIMessage(Cur, Ping(id))) =
             << [conn |-> c, type |-> "pong", event_id |-> id] >>
      /\ \A m \in simple_Messages :
           m.type # "ping" => Pongs(simple_OnAIMessage(Cur, m)) = << >>

\* ---------------------------------------------------------------- C28
\* C28: in part_002, a ping received from the AI provider on an open AI
\* connection is answered with a pong.  The message handler has no branch
\* for the type "ping": a ping is a message of a type it does not know,
\* without tool calls, text or termination field.
PingMessage ==
  [type |-> "other", term |-> FALSE, tc |-> "none", areText |-> NoText,
   trText |-> NoText]

C28_PingAnswered ==
  AIDeliverable => "pong" \in OnAIMessage(Cur, PingMessage).emitted

\* ---------------------------------------------------------------- C29
\* C29: checkForClosingPhrase(text) returns true exactly when one of the
\* four phrases, in any mix of upper and lower case, is written wholly
\* inside the last 150 characters of the text (the whole text when it is
\* shorter); when every phrase in the text lies earlier or is cut by the
\* start of those 150 characters it returns false and closingPhraseDetected
\* and closingPhraseTimer stay as they were.
WhollyInTail(raw) ==
  \E o \in raw.occ :
    /\ o.at >= raw.len - TAIL_CHARS
    /\ o.at + PhraseLen[o.phrase] <= raw.len

HoldsEndCall(v) ==
  /\ v.kind \in {"object", "array"}
  /\ \E i \in DOMAIN v.calls : v.calls[i] = [tool_name |-> "end_call"]

EndCallAppears(obj) ==
  /\ obj.kind = "object"
  /\ \/ HoldsEndCall(obj.tool_calls)
     \/ /\ obj.transcript.kind = "array"
        /\ \E i \in DOMAIN obj.transcript.turns :
             HoldsEndCall(obj.transcript.turns[i].tool_calls)
     \/ /\ obj.agent_response_event.kind = "object"
        /\ HoldsEndCall(obj.agent_response_event.tool_calls)

C31_ConfigOncePerConnection ==
  \A c \in ConnIds :
    conns[c].state = "CONNECTING" =>
      LET r == OnAIOpen(Cur, c)
      IN ("config" \in r.emitted \/ r.chunks # << >>) => r.elevenLabsWs = c

\* ---------------------------------------------------------------- C32
\* C32: a message whose end_call directive or conversation-end signal is
\* suppressed (the handler logs it as premature or ignored and accepts
\* none) leaves closingPhraseDetected, callEnding, audioBuffer, the
\* telephony socket, the AI connections and the variable elevenLabsWs as
\* they were; the hang-up timers are as the same message without the
\* signal leaves them, and the audio the message carries is relayed to the
\* caller as it would be without the signal.
PrematureLogs ==
  {"log:premature", "log:premature_response", "log:premature_array",
   "log:conv_end_ignored"}

WithoutSignal(m) ==
  [m EXCEPT !.tc = "none", !.term = FALSE,
            !.type = IF @ = "conversation_end" THEN "other" ELSE @]

IsSuppressed(r) ==
  /\ r.emitted \cap PrematureLogs # {}
  /\ r.emitted \cap (AcceptedLogs \cup {"log:conv_end"}) = {}

C32_SuppressedSignalChangesNothing ==
  \A m \in Messages :
    LET r == OnAIMessage(Cur, m)
        plain == OnAIMessage(Cur, WithoutSignal(m))
    IN (AIDeliverable /\ IsEndSignal(m) /\ IsSuppressed(r)) =>
         /\ r.closingPhraseDetected = closingPhraseDetected
         /\ r.callEnding = callEnding
         /\ r.audioBuffer = audioBuffer
         /\ r.ws = ws
         /\ r.conns = conns
         /\ r.elevenLabsWs = elevenLabsWs
         /\ r.elevenLabsReady = elevenLabsReady
         /\ r.endTimeouts = endTimeouts
         /\ r.closingPhraseTimer = plain.closingPhraseTimer
         /\ r.nestedTimeouts = plain.nestedTimeouts
         /\ m.type # "audio" =>
              /\ r.closingPhraseTimer = closingPhraseTimer
              /\ r.nestedTimeouts = nestedTimeouts
         /\ ("media" \in r.emitted) <=> ("media" \in plain.emitted)
         /\ r.emitted \cap HangupCalls = {}

\* after the closing phrase, with the hang-up timer armed, a directive that
\* came with a text without a phrase was suppressed and the timer still runs
C32_Witness ==
  /\ closingPhraseDetected
  /\ closingPhraseTimer.state = "armed"
  /\ "log:premature" \in emitted
  /\ emitted \cap (AcceptedLogs \cup {"log:conv_end"}) = {}
  /\ ~callEnding
  /\ ws = "OPEN"

\* ---------------------------------------------------------------- C33
\* C33: once the first start event has assigned streamSid and callSid, a
\* later start event on the same telephony connection, whatever
\* identifiers it carries, leaves both as they are.
StreamSids == {1, 2}

C33_SidsImmutable ==
  (streamSid # 0 /\ ws \in {"OPEN", "CLOSING"}) =>
    \A sid \in StreamSids, hasAgentId \in BOOLEAN :
      LET r == OnStart(Cur, sid, hasAgentId)
      IN r.streamSid = streamSid /\ r.callSid = callSid

\* ---------------------------------------------------------------- C34
\* C34: a message sets closingPhraseDetected only when the agent text it
\* carries has an allow-listed phrase within its final 150 characters; a
\* message whose text quotes a phrase only earlier does not set it, with
\* or without an end_call directive.
C34_FlagOnlyByPhraseAtEnd ==
  \A m \in Messages :
    (/\ AIDeliverable
     /\ ~closingPhraseDetected
     /\ OnAIMessage(Cur, m).closingPhraseDetected)
      => PhraseAtEnd(CurrentAgentText(m))

\* ---------------------------------------------------------------- C35
\* C35: once callEnding is true, audioBuffer is empty and stays empty:
\* every media frame that arrives is dropped (it is neither buffered nor
\* sent and changes nothing), and an AI connection that opens sends no
\* audio chunk.
C35_InboundShutWhileEnding ==
  callEnding =>
    /\ audioBuffer = << >>
    /\ chunks = << >>
    /\ ws \in {"OPEN", "CLOSING"} =>
         LET r == OnMedia([Cur EXCEPT !.received = @ + 1], received + 1)
         IN /\ r.audioBuffer = << >>
            /\ r.chunks = << >>
            /\ r.emitted = {"log:ignoring_audio"}
            /\ r.callEnding
            /\ r.pendingFallback = pendingFallback
    /\ \A c \in ConnIds :
         conns[c].state = "CONNECTING" =>
           LET r == OnAIOpen(Cur, c)
           IN /\ r.chunks = << >>
              /\ "chunk" \notin r.emitted
              /\ r.audioBuffer = << >>
              /\ r.callEnding

\* the call is ending, the telephony socket is still open and a media
\* frame has just been dropped while an AI connection is still connecting
C35_Witness ==
  /\ callEnding
  /\ ws = "OPEN"
  /\ emitted = {"log:ignoring_audio"}
  /\ audioBuffer = << >>
  /\ \E c \in ConnIds : conns[c].state = "CONNECTING"

\* ---------------------------------------------------------------- C36
\* C36: a stop event that arrives while closingPhraseDetected is false is
\* blocked: it is logged and changes no session variable, so the timers
\* stay armed and the AI connection stays open.  When the flag is true
\* the stop event cancels the silence timer and the hang-up timer and
\* calls close() on the AI connection if it is open; it changes nothing
\* else.
C36_StopBlockedUntilPhrase ==
  ws \in {"OPEN", "CLOSING"} =>
    LET r == OnStop(Cur)
    IN /\ ~closingPhraseDetected =>
            /\ [r EXCEPT !.emitted = {}] = Cur
            /\ r.emitted = {"log:blocked_stop"}
       /\ closingPhraseDetected =>
            /\ r.silenceTimer \notin {"armed", "due"}
            /\ r.closingPhraseTimer.state # "armed"
            /\ ElState(Cur) = "OPEN" =>
                 /\ r.conns = [conns EXCEPT ![elevenLabsWs].state = "CLOSING"]
                 /\ r.emitted = {"el.close"}
            /\ ElState(Cur) # "OPEN" => (r.conns = conns /\ r.emitted = {})
            /\ [r EXCEPT !.silenceTimer = silenceTimer,
                         !.closingPhraseTimer = closingPhraseTimer,
                         !.conns = conns, !.emitted = {}] = Cur

\* a stop event after the closing phrase has just cancelled the armed
\* timers and closed the open AI connection
C36_Witness ==
  /\ closingPhraseDetected
  /\ ~callEnding
  /\ ws = "OPEN"
  /\ emitted = {"el.close"}
  /\ silenceTimer = "spent"
  /\ closingPhraseTimer = SpentTimer
  /\ ElState(Cur) = "CLOSING"
\* ---------------------------------------------------------------- C37
\* C37: once closingPhraseDetected is true the session eventually
\* terminates, whatever media and stop events the telephony leg interleaves
\* with the hang-up timers: close() is eventually called on both sockets
\* (the part of the claim that does not depend on which function sent the
\* stop frame).
Terminated ==
  /\ ws # "OPEN"
  /\ ElState(Cur) # "OPEN"

C37_EventuallyTerminates == closingPhraseDetected ~> Terminated
\* ---------------------------------------------------------------- C38
\* C38: a started session whose AI connection never becomes ready and in
\* which no closing phrase is detected is eventually force-terminated by the
\* ceilings of the idle timer, while media frames keep arriving and being
\* buffered.
C38_UnreadySessionForcedToEnd == (streamSid # 0) ~> (ws # "OPEN")
\* ---------------------------------------------------------------- C39
\* C39: every hang-up path marks the session as terminating before it sends
\* the stop frame: after a step that sent the stop frame, callEnding is true
\* and audioBuffer is empty.
C39_StopFrameOnlyWhenEnding ==
  "stop" \in emitted => callEnding /\ audioBuffer = << >>
\* ---------------------------------------------------------------- C40
\* C40: every event that refreshes lastActivity resets silenceTimerResetCount
\* to 0, so that the counter counts the idle-timer callbacks since the most
\* recent activity: whenever the handler of an AI message assigns
\* lastActivity (the inactivity ceiling is no longer exceeded after it,
\* whatever it was before), the counter is 0 after it.
RefreshesActivity(m) ==
  ~OnAIMessage([Cur EXCEPT !.inactivityExceeded = TRUE], m).inactivityExceeded

C40_ActivityResetsCounter ==
  \A m \in IdleMessages :
    (AIDeliverable /\ RefreshesActivity(m)) =>
      OnAIMessage(Cur, m).silenceTimerResetCount = 0

====
